---------------------------- MODULE Spec2Model ----------------------------
(***************************************************************************)
(* A model of xzero's execution and portfolio-accounting engine:           *)
(*   - proper_weights            (portfolio/port.py, events/signal.py)     *)
(*   - Commission schedules      (execution/commission.py)                 *)
(*   - Transaction, Portfolio    (events/transaction.py, portfolio/port.py)*)
(*   - MarketSnapshot, SimulationEngine (data_handler, execution/simu_exec)*)
(*                                                                         *)
(* Money is counted in cents (integers), so that round(x, 2) of the source *)
(* is a rounding of an exact rational to an integer number of cents.       *)
(* Python's round() is round-half-to-even.  A float NaN is the value NaN.  *)
(* Weights are exact rationals [n, d].                                     *)
(***************************************************************************)
EXTENDS Integers, Sequences, FiniteSets, TLC

VARIABLES
    \* ---- proper_weights, applied to drawn inputs
    wArgs,        \* [assets, weights]: the arguments of the last call
    wRes,         \* what the last call returned
    \* ---- Commission schedules, applied to drawn inputs
    cArgs,        \* [typ, cost, args, quantity, fill_cost]: spec string and trade
    cRes,         \* the schedule comms() returned and what calculate returned
    \* ---- Portfolio (the ledger)
    tradeOn,      \* Portfolio.trade_on
    cash,         \* Portfolio._cash_           (cents, or NaN)
    commission,   \* Portfolio._commission_     (ticker -> cents, or NaN)
    positions,    \* Portfolio._positions_      (ticker -> deep copy of an Asset)
    subPf,        \* Portfolio._sub_pf_         (name -> positions: seq of [ticker, obj])
    assetQty,     \* .quantity of every Asset object the caller holds
    pc,           \* where the running trade call is: idle, unwind, initiate, return
    frame,        \* arguments and locals of the running trade call
    obs,          \* observations: result of the last call, executed totals
    ops,          \* number of trade calls made so far
    \* ---- SimulationEngine and its MarketSnapshot
    engine,       \* SimulationEngine: [inst_exec, trade_on, buy_on, sell_on, calls]
    snapshot,     \* MarketSnapshot: [timestamp, rows]
    events_queue, \* the FillEvents put on the queue
    engOut        \* outcome of the last engine call

varsW == <<wArgs, wRes>>
varsP == <<tradeOn, cash, commission, positions, subPf, assetQty, pc, frame, obs, ops>>
varsE == <<engine, snapshot, events_queue, engOut>>
varsC == <<cArgs, cRes>>
vars == <<varsW, varsC, varsP, varsE>>

-----------------------------------------------------------------------------
(* Bounds of the model *)

\* weights drawn for proper_weights lie in -MaxWeight .. MaxWeight
MaxWeight == 3
\* number of Portfolio.trade calls in one behaviour
MaxOps == 2
\* number of Portfolio.mark_to_market calls in one behaviour
MaxMarks == 1
\* Portfolio(init_cash=...), in currency units
InitCashUnits == 200
\* Portfolio(tolerance=...), in currency units
ToleranceUnits == 60
\* the limbs of the numbers that float arithmetic is worked in hold
\* LimbBits bits each
LimbBits == 14
\* a float division works its quotient out to DivLimbCount limbs
DivLimbCount == 4
\* number of calls made to the engine in one behaviour
MaxCalls == 3
\* timestamps of market events and orders lie in 1 .. MaxTime
MaxTime == 2

-----------------------------------------------------------------------------
(* Numbers *)

\* np.nan; every other number of the model is greater
NaN == -2000000000

IsNaN(x) == x = NaN

Abs(x) == IF x < 0 THEN -x ELSE x

Sign(x) == IF x > 0 THEN 1 ELSE IF x < 0 THEN -1 ELSE 0

Max2(a, b) == IF a >= b THEN a ELSE b

Min2(a, b) == IF a <= b THEN a ELSE b

\* Python round(): n/d (d > 0) to the nearest integer, ties to the even one
RoundHalfEven(n, d) ==
    LET q == n \div d
        r == n % d
    IN  IF 2 * r < d THEN q
        ELSE IF 2 * r > d THEN q + 1
        ELSE IF q % 2 = 0 THEN q ELSE q + 1

\* hi + lo/d (lo >= 0, d > 0) to the nearest integer, ties to the even one
RoundHalfEvenSum(hi, lo, d) ==
    LET q == hi + (lo \div d)
        r == lo % d
    IN  IF 2 * r < d THEN q
        ELSE IF 2 * r > d THEN q + 1
        ELSE IF q % 2 = 0 THEN q ELSE q + 1

\* float arithmetic with NaN: NaN is absorbing, and equal to nothing
FAdd(a, b) == IF IsNaN(a) \/ IsNaN(b) THEN NaN ELSE a + b

FSub(a, b) == IF IsNaN(a) \/ IsNaN(b) THEN NaN ELSE a - b

FMul(a, b) == IF IsNaN(a) \/ IsNaN(b) THEN NaN ELSE a * b

\* float ==
FEq(a, b) == ~IsNaN(a) /\ ~IsNaN(b) /\ a = b

RECURSIVE Gcd(_, _)
Gcd(a, b) == IF b = 0 THEN a ELSE Gcd(b, a % b)

\* the rational n/d (d # 0) in lowest terms with a positive denominator
Rat(n, d) ==
    LET g == Gcd(Abs(n), Abs(d))
        s == IF d < 0 THEN -1 ELSE 1
    IN  [n |-> s * (n \div g), d |-> s * (d \div g)]

RMul(a, b) == Rat(a.n * b.n, a.d * b.d)

RDiv(a, b) == Rat(a.n * b.d, a.d * b.n)

RECURSIVE SumSet(_, _)
\* sum of f[k] over k in S
SumSet(f, S) ==
    IF S = {} THEN 0
    ELSE LET k == CHOOSE x \in S : TRUE IN f[k] + SumSet(f, S \ {k})

RECURSIVE RSumSet(_, _)
\* exact sum of the rationals f[k] over k in S
RSumSet(f, S) ==
    IF S = {} THEN Rat(0, 1)
    ELSE LET k == CHOOSE x \in S : TRUE
             r == RSumSet(f, S \ {k})
         IN  Rat(f[k].n * r.d + r.n * f[k].d, f[k].d * r.d)

-----------------------------------------------------------------------------
(* Assets: the Asset objects the caller constructs and passes to trade.    *)
(* A name is an object identity: a1 and a1b are two objects of ticker A.   *)

Tickers == {"A", "B", "C"}

Objects == {"a1", "a2", "a3", "a1b"}

\* Asset.ticker
AssetTicker(o) ==
    CASE o = "a1" -> "A" [] o = "a2" -> "B" [] o = "a3" -> "C" [] o = "a1b" -> "A"

\* Asset.price as constructed, in cents
AssetPrice(o) ==
    CASE o = "a1" -> 900 [] o = "a2" -> 2100 [] o = "a3" -> 500 [] o = "a1b" -> 900

\* Asset.lot_size
AssetLot(o) ==
    CASE o = "a1" -> 1 [] o = "a2" -> 2 [] o = "a3" -> 1 [] o = "a1b" -> 1

-----------------------------------------------------------------------------
(* proper_weights *)

\* a weights argument: None, or a dict key -> number
NoWeights == [isNone |-> TRUE, map |-> <<>>]

SomeWeights(m) == [isNone |-> FALSE, map |-> m]

\* the default for two assets keys the second weight by the Asset object
\* itself, not by its ticker
DefaultWeights(assets) ==
    IF Len(assets) = 2
    THEN SomeWeights((AssetTicker(assets[1]) :> Rat(1, 1)) @@ (assets[2] :> Rat(-1, 1)))
    ELSE IF Len(assets) = 1
    THEN SomeWeights(AssetTicker(assets[1]) :> Rat(1, 1))
    ELSE NoWeights

\* a normalization to unit gross: every nonzero weight divided by
\* pos + abs(neg)
NormalizedWeights_gross(m) ==
    LET K == DOMAIN m
        pos == RSumSet(m, {k \in K : m[k].n > 0})
        neg == RSumSet(m, {k \in K : m[k].n < 0})
        gross == Rat(pos.n * neg.d - neg.n * pos.d, pos.d * neg.d)
    IN  [k \in K |-> IF m[k].n = 0 THEN m[k] ELSE RDiv(m[k], gross)]

\* a normalization of each side on its own: positive weights divided by
\* pos, negative weights by abs(neg)
NormalizedWeights_sides(m) ==
    LET K == DOMAIN m
        pos == RSumSet(m, {k \in K : m[k].n > 0})
        neg == RSumSet(m, {k \in K : m[k].n < 0})
        absneg == Rat(-neg.n, neg.d)
    IN  [k \in K |->
            IF m[k].n = 0 THEN m[k]
            ELSE RDiv(m[k], IF m[k].n > 0 THEN pos ELSE absneg)]

\* the else branch: every nonzero weight divided by pos, or by
\* abs(neg) * pos_to_neg; the weights are rationals n/d
NormalizedWeights(m) ==
    LET K == DOMAIN m
        zero == Rat(0, 1)
        pos == RSumSet(m, {k \in K : m[k].n > 0})
        neg == RSumSet(m, {k \in K : m[k].n < 0})
        absneg == Rat(-neg.n, neg.d)
        pos_to_neg == IF neg.n < 0 /\ 0 < pos.n THEN RDiv(pos, absneg) ELSE Rat(1, 1)
    IN  [k \in K |->
            IF m[k].n = 0 THEN m[k]
            ELSE RDiv(m[k], IF m[k].n > 0 THEN pos ELSE RMul(absneg, pos_to_neg))]

proper_weights(assets, weights) ==
    IF weights.isNone THEN DefaultWeights(assets)
    ELSE SomeWeights(NormalizedWeights(weights.map))

\* dict.get(key, 0)
WeightGet(w, key) == IF key \in DOMAIN w.map THEN w.map[key] ELSE Rat(0, 1)

-----------------------------------------------------------------------------
(* The weights as Python holds them: float is IEEE-754 binary64, and
   proper_weights divides, multiplies and sums in it *)

\* the significand of a binary64 float
Precision == 53

\* natural numbers as little-endian sequences of limbs below 2^LimbBits,
\* without leading zeros
Base == 2 ^ LimbBits

RECURSIVE Pow2(_)
Pow2(k) == IF k = 0 THEN 1 ELSE 2 * Pow2(k - 1)

RECURSIVE BNorm(_)
BNorm(a) ==
    IF a # <<>> /\ a[Len(a)] = 0 THEN BNorm(SubSeq(a, 1, Len(a) - 1)) ELSE a

RECURSIVE BAddC(_, _, _)
BAddC(a, b, c) ==
    IF a = <<>> /\ b = <<>> THEN (IF c = 0 THEN <<>> ELSE <<c>>)
    ELSE LET x == (IF a = <<>> THEN 0 ELSE Head(a))
                  + (IF b = <<>> THEN 0 ELSE Head(b)) + c
         IN  <<x % Base>> \o BAddC(IF a = <<>> THEN a ELSE Tail(a),
                                   IF b = <<>> THEN b ELSE Tail(b), x \div Base)

BAdd(a, b) == BAddC(a, b, 0)

RECURSIVE BSubC(_, _, _)
BSubC(a, b, c) ==
    IF a = <<>> THEN <<>>
    ELSE LET x == Head(a) - (IF b = <<>> THEN 0 ELSE Head(b)) - c
         IN  <<x % Base>> \o BSubC(Tail(a), IF b = <<>> THEN b ELSE Tail(b),
                                   IF x < 0 THEN 1 ELSE 0)

\* a - b for a >= b
BSub(a, b) == BNorm(BSubC(a, b, 0))

RECURSIVE BCmpFrom(_, _, _)
BCmpFrom(a, b, i) ==
    IF i = 0 THEN 0
    ELSE IF a[i] # b[i] THEN (IF a[i] < b[i] THEN -1 ELSE 1)
    ELSE BCmpFrom(a, b, i - 1)

\* -1, 0, 1 as a < b, a = b, a > b
BCmp(a, b) ==
    IF Len(a) # Len(b) THEN (IF Len(a) < Len(b) THEN -1 ELSE 1)
    ELSE BCmpFrom(a, b, Len(a))

RECURSIVE BMulSmallC(_, _, _)
BMulSmallC(a, k, c) ==
    IF a = <<>> THEN (IF c = 0 THEN <<>> ELSE <<c>>)
    ELSE LET x == Head(a) * k + c
         IN  <<x % Base>> \o BMulSmallC(Tail(a), k, x \div Base)

\* a * k for 0 <= k < Base
BMulSmall(a, k) == IF k = 0 THEN <<>> ELSE BMulSmallC(a, k, 0)

RECURSIVE BMul(_, _)
BMul(a, b) ==
    IF b = <<>> \/ a = <<>> THEN <<>>
    ELSE BAdd(BMulSmall(a, Head(b)),
              LET r == BMul(a, Tail(b)) IN IF r = <<>> THEN r ELSE <<0>> \o r)

RECURSIVE Zeros(_)
Zeros(n) == IF n = 0 THEN <<>> ELSE <<0>> \o Zeros(n - 1)

\* a * 2^d
BShl(a, d) ==
    IF a = <<>> THEN a
    ELSE Zeros(d \div LimbBits) \o BMulSmall(a, Pow2(d % LimbBits))

RECURSIVE BDivSmallFrom(_, _, _, _)
BDivSmallFrom(a, k, i, r) ==
    IF i = 0 THEN <<>>
    ELSE LET x == r * Base + a[i]
         IN  BDivSmallFrom(a, k, i - 1, x % k) \o <<x \div k>>

\* a \div 2^d
BShr(a, d) ==
    LET n == d \div LimbBits
        b == IF n >= Len(a) THEN <<>> ELSE SubSeq(a, n + 1, Len(a))
    IN  BNorm(BDivSmallFrom(b, Pow2(d % LimbBits), Len(b), 0))

RECURSIVE BitLenSmall(_)
BitLenSmall(x) == IF x = 0 THEN 0 ELSE 1 + BitLenSmall(x \div 2)

BBitLen(a) ==
    IF a = <<>> THEN 0 ELSE LimbBits * (Len(a) - 1) + BitLenSmall(a[Len(a)])

BOdd(a) == a # <<>> /\ a[1] % 2 = 1

BFromSmall(x) == IF x = 0 THEN <<>> ELSE <<x>>

\* a float is sgn * man * 2^exp with man of exactly Precision bits, or zero
DblZero == [sgn |-> 0, man |-> <<>>, exp |-> 0]

\* sgn * m * 2^e rounded to the nearest float, ties to even; sticky says
\* that the exact value lies strictly above m * 2^e
DblRound(sgn, m, e, sticky) ==
    LET len == BBitLen(m)
    IN  IF m = <<>> THEN DblZero
        ELSE IF len <= Precision
        THEN [sgn |-> sgn, man |-> BShl(m, Precision - len),
              exp |-> e - (Precision - len)]
        ELSE LET d == len - Precision
                 q == BShr(m, d)
                 r == BSub(m, BShl(q, d))
                 c == BCmp(r, BShl(<<1>>, d - 1))
                 up == c > 0 \/ (c = 0 /\ (sticky \/ BOdd(q)))
                 q1 == IF up THEN BAdd(q, <<1>>) ELSE q
             IN  IF BBitLen(q1) > Precision
                 THEN [sgn |-> sgn, man |-> BShr(q1, 1), exp |-> e + d + 1]
                 ELSE [sgn |-> sgn, man |-> q1, exp |-> e + d]

\* float(i)
DblFromInt(i) ==
    DblRound(IF i < 0 THEN -1 ELSE 1, BFromSmall(IF i < 0 THEN -i ELSE i), 0, FALSE)

\* abs(x)
DblAbs(x) == [x EXCEPT !.sgn = IF x.sgn = 0 THEN 0 ELSE 1]

\* x + y for x and y of one sign
DblAdd(x, y) ==
    IF x.sgn = 0 THEN y
    ELSE IF y.sgn = 0 THEN x
    ELSE LET e == IF x.exp < y.exp THEN x.exp ELSE y.exp
         IN  DblRound(x.sgn, BAdd(BShl(x.man, x.exp - e), BShl(y.man, y.exp - e)),
                      e, FALSE)

\* x * y
DblMul(x, y) ==
    IF x.sgn = 0 \/ y.sgn = 0 THEN DblZero
    ELSE DblRound(x.sgn * y.sgn, BMul(x.man, y.man), x.exp + y.exp, FALSE)

\* i more bits of the quotient of r * 2^i by d, for r < d
RECURSIVE DivBits(_, _, _, _)
DivBits(r, d, q, i) ==
    IF i = 0 THEN [q |-> q, r |-> r]
    ELSE LET r2 == BMulSmall(r, 2)
         IN  IF BCmp(r2, d) >= 0 THEN DivBits(BSub(r2, d), d, 2 * q + 1, i - 1)
             ELSE DivBits(r2, d, 2 * q, i - 1)

\* n more limbs of the quotient
RECURSIVE DivLimbs(_, _, _)
DivLimbs(r, d, n) ==
    IF n = 0 THEN [q |-> <<>>, r |-> r]
    ELSE LET top == DivBits(r, d, 0, LimbBits)
             low == DivLimbs(top.r, d, n - 1)
         IN  [q |-> low.q \o <<top.q>>, r |-> low.r]

\* x / y for y # 0: the quotient of the mantissas to DivLimbCount limbs
\* past the leading bit, the rest of the division kept as the sticky bit
DblDiv(x, y) ==
    IF x.sgn = 0 THEN DblZero
    ELSE LET first == BCmp(x.man, y.man) >= 0
             qr == DivLimbs(IF first THEN BSub(x.man, y.man) ELSE x.man, y.man,
                            DivLimbCount)
             q == BNorm(IF first THEN qr.q \o <<1>> ELSE qr.q)
         IN  DblRound(x.sgn * y.sgn, q, x.exp - y.exp - DivLimbCount * LimbBits,
                      qr.r # <<>>)

\* the order of a dict's items is the order of insertion
WeightOrder == <<"A", "B", "C">>

\* np.array([w for w in w_val if w > 0]).sum() and its negative twin:
\* numpy adds fewer than eight numbers one after another
RECURSIVE SideSum(_, _, _)
SideSum(m, sgn, i) ==
    IF i = 0 THEN DblZero
    ELSE LET s == SideSum(m, sgn, i - 1)
         IN  IF WeightOrder[i] \in DOMAIN m /\ m[WeightOrder[i]].sgn = sgn
             THEN DblAdd(s, m[WeightOrder[i]])
             ELSE s

\* the else branch on the numbers the dict holds
NormalizedFloats(m) ==
    LET pos == SideSum(m, 1, Len(WeightOrder))
        neg == SideSum(m, -1, Len(WeightOrder))
        pos_to_neg == IF neg.sgn < 0 /\ 0 < pos.sgn
                      THEN DblDiv(pos, DblAbs(neg))
                      ELSE DblFromInt(1)
    IN  [k \in DOMAIN m |->
            IF m[k].sgn = 0 THEN m[k]
            ELSE DblDiv(m[k], IF m[k].sgn > 0 THEN pos
                              ELSE DblMul(DblAbs(neg), pos_to_neg))]

\* the float of a weight the caller wrote as n/d
FloatOf(r) == DblDiv(DblFromInt(r.n), DblFromInt(r.d))

-----------------------------------------------------------------------------
(* proper_weights applied to drawn inputs *)

WeightKeys == {"A", "B", "C"}

\* the caller's dicts: integer weights over any nonempty set of tickers
WeightMaps ==
    UNION {[K -> {Rat(v, 1) : v \in (-MaxWeight)..MaxWeight}] :
               K \in (SUBSET WeightKeys) \ {{}}}

WAssetLists == {<<>>, <<"a1">>, <<"a1", "a2">>, <<"a1", "a2", "a3">>}

\* map: the returned weights as exact numbers; dict: what the caller's
\* dict object holds, as floats; out: the returned dict, as floats;
\* first: what the first of two calls returned; again: the dict went
\* through a second call
NotCalled ==
    [called |-> FALSE, isNone |-> TRUE, map |-> <<>>,
     dict |-> NoWeights, out |-> NoWeights, first |-> NoWeights, again |-> FALSE]

Returned(w) ==
    [NotCalled EXCEPT !.called = TRUE, !.isNone = w.isNone, !.map = w.map]

\* the floats of a weights argument
FloatWeights(w) ==
    IF w.isNone THEN NoWeights
    ELSE SomeWeights([k \in DOMAIN w.map |-> FloatOf(w.map[k])])

\* lines 488-499 on the caller's dict: every nonzero item is assigned in
\* place, and the dict itself is returned
proper_weights_in_place(dict) == SomeWeights(NormalizedFloats(dict.map))

\* the arguments of the call to come
InitW ==
    /\ wArgs \in {[assets |-> assets, weights |-> NoWeights] : assets \in WAssetLists}
                 \cup {[assets |-> <<"a1", "a2", "a3">>, weights |-> SomeWeights(m)] :
                          m \in WeightMaps}
    /\ wRes = NotCalled

\* no call of proper_weights from outside trade
IdleW ==
    /\ wArgs = [assets |-> <<>>, weights |-> NoWeights]
    /\ wRes = NotCalled

\* proper_weights(assets): the branch of line 484
ApplyDefault ==
    /\ ~wRes.called
    /\ wArgs.weights.isNone
    /\ wRes' = Returned(proper_weights(wArgs.assets, wArgs.weights))
    /\ UNCHANGED <<wArgs, varsC, varsP, varsE>>

\* proper_weights(assets, weights): the branch of line 488
ApplyWeights ==
    /\ ~wRes.called
    /\ ~wArgs.weights.isNone
    /\ LET dict == proper_weights_in_place(FloatWeights(wArgs.weights))
       IN  wRes' = [Returned(proper_weights(wArgs.assets, wArgs.weights))
                        EXCEPT !.dict = dict, !.out = dict]
    /\ UNCHANGED <<wArgs, varsC, varsP, varsE>>

\* proper_weights(assets, weights) once more, with the dict object the
\* first call was given
ApplyAgain ==
    /\ wRes.called /\ ~wRes.again
    /\ ~wArgs.weights.isNone
    /\ LET dict == proper_weights_in_place(wRes.dict)
       IN  wRes' = [Returned(proper_weights(wArgs.assets, SomeWeights(wRes.map)))
                        EXCEPT !.dict = dict, !.out = dict,
                               !.first = wRes.out, !.again = TRUE]
    /\ UNCHANGED <<wArgs, varsC, varsP, varsE>>

-----------------------------------------------------------------------------
(* Commission schedules (execution/commission.py) *)

\* cls.rounding, the class attribute __init_subclass__ sets
ClassRounding(kind) ==
    CASE kind = "PerShare" -> 2 [] kind = "PerDollar" -> 4 [] kind = "PerTrade" -> 0

\* self.__dict__.get('rounding', 0.): the instance dict of the object under
\* construction holds no 'rounding' (it is an attribute of the class), so
\* the default is what __init__ reads
InstanceRounding(kind) == 0

RECURSIVE Pow10(_)
Pow10(k) == IF k = 0 THEN 1 ELSE 10 * Pow10(k - 1)

\* Commission.__init__: cost as a rational (round(., 6) changes nothing for
\* an integer token divided by 10^k, k <= 4), min_cost in cents
Commission(kind, cost, min_cost) ==
    [kind |-> kind,
     cost |-> Rat(cost, Pow10(InstanceRounding(kind))),
     min_cost |-> min_cost]

\* Commission.check_type over Commission.__subclasses__()
KindOf(typ) ==
    IF typ \in {"share", "per_share"} THEN "PerShare"
    ELSE IF typ \in {"dollar", "bps"} THEN "PerDollar"
    ELSE IF typ \in {"trade", "per_trade"} THEN "PerTrade"
    ELSE "none"

\* comms('{typ}__{cost}[__{min_cost}]'), given the tokens of the split;
\* args holds the min_cost token (in cents) when there is one
comms(typ, cost, args) ==
    IF KindOf(typ) # "none"
    THEN Commission(KindOf(typ), cost, IF Len(args) > 0 THEN args[1] ELSE 0)
    ELSE Commission("PerShare", cost, 0)

\* the calculate of each subclass, as a rational number of cents;
\* quantity in shares, fill_cost in cents
VariantFormula(c, quantity, fill_cost) ==
    CASE c.kind = "PerShare" -> Rat(Abs(quantity) * c.cost.n * 100, c.cost.d)
      [] c.kind = "PerDollar" -> Rat(Abs(quantity) * fill_cost * c.cost.n, c.cost.d)
      [] c.kind = "PerTrade" -> Rat(c.cost.n * 100, c.cost.d)

\* line 56 without the max against self.min_cost
total_comm_unfloored(c, quantity, fill_cost) ==
    IF quantity = 0 THEN 0
    ELSE IF IsNaN(fill_cost) /\ c.kind = "PerDollar" THEN NaN
    ELSE LET f == VariantFormula(c, quantity, fill_cost)
         IN  RoundHalfEven(f.n, f.d)

\* calc_comms: TransCost.total_comm in cents.  max(nan, min_cost) is nan.
total_comm(c, quantity, fill_cost) ==
    IF quantity = 0 THEN 0
    ELSE IF IsNaN(fill_cost) /\ c.kind = "PerDollar" THEN NaN
    ELSE LET f == VariantFormula(c, quantity, fill_cost)
         IN  IF f.n >= c.min_cost * f.d THEN RoundHalfEven(f.n, f.d) ELSE c.min_cost

\* Equity(..., comms='dollar__2')
AssetComms(o) == comms("dollar", 2, <<>>)

RECURSIVE ScaledDiv(_, _, _)
\* quotient and remainder of n * 10^k by d (n >= 0, d > 0), digit by digit
ScaledDiv(n, d, k) ==
    IF k = 0 THEN [q |-> n \div d, r |-> n % d]
    ELSE LET p == ScaledDiv(n, d, k - 1)
         IN  [q |-> p.q * 10 + ((p.r * 10) \div d), r |-> (p.r * 10) % d]

\* abs(round(total_cost / total_amt * 1e4, 2)), in hundredths of a basis
\* point; total_cost in cents, total_amt = quantity * fill_cost in cents
in_bps(total_cost, quantity, fill_cost) ==
    IF IsNaN(total_cost) \/ IsNaN(fill_cost) THEN NaN
    ELSE LET d == Abs(quantity * fill_cost)
             p == ScaledDiv(Abs(total_cost), d, 6)
         IN  IF 2 * p.r < d THEN p.q
             ELSE IF 2 * p.r > d THEN p.q + 1
             ELSE IF p.q % 2 = 0 THEN p.q ELSE p.q + 1

\* TransCost(total_comm, in_bps)
TransCost(total, bps) == [total_comm |-> total, in_bps |-> bps]

\* Commission.calculate under the calc_comms wrapper
calculate(c, quantity, fill_cost) ==
    IF quantity = 0 THEN TransCost(0, 0)
    ELSE LET total == total_comm(c, quantity, fill_cost)
         IN  TransCost(total, in_bps(total, quantity, fill_cost))

\* the kind tokens of a spec string: the keywords of the three subclasses
\* and two tokens that are no keyword of any
KnownTyps == {"share", "per_share", "dollar", "bps", "trade", "per_trade"}

CTyps == KnownTyps \cup {"per_dollar", "flat"}

\* the cost token
CCosts == {5, 15, 75}

\* the tokens after the cost token: none, or a min_cost of 100.00
CMinCosts == {<<>>, <<10000>>}

\* the trades costed: signed quantity, fill_cost in cents
Trans(quantity, fill_cost) == [quantity |-> quantity, fill_cost |-> fill_cost]

CTrades ==
    {Trans(16000, 510), Trans(1000, 8500), Trans(-30, 510), Trans(-7, 8500),
     Trans(0, 510)}

NoSchedule == [kind |-> "none", cost |-> Rat(0, 1), min_cost |-> 0]

\* no schedule built yet
NotParsed == [stage |-> "new", sched |-> NoSchedule, out |-> TransCost(0, 0)]

InitC ==
    /\ cArgs \in {[typ |-> typ, cost |-> cost, args |-> args, trans |-> trans] :
                    typ \in CTyps, cost \in CCosts, args \in CMinCosts,
                    trans \in CTrades}
    /\ cRes = NotParsed

\* no schedule built outside the ledger
IdleC ==
    /\ cArgs = [typ |-> "dollar", cost |-> 2, args |-> <<>>, trans |-> Trans(0, 0)]
    /\ cRes = NotParsed

\* c = comms('{typ}__{cost}[__{min_cost}]')
Parse ==
    /\ cRes.stage = "new"
    /\ cRes' = [cRes EXCEPT !.stage = "parsed",
                            !.sched = comms(cArgs.typ, cArgs.cost, cArgs.args)]
    /\ UNCHANGED <<cArgs, varsW, varsP, varsE>>

\* c.calculate(trans)
Calculate ==
    /\ cRes.stage = "parsed"
    /\ cRes' = [cRes EXCEPT !.stage = "done",
                            !.out = calculate(cRes.sched, cArgs.trans.quantity,
                                              cArgs.trans.fill_cost)]
    /\ UNCHANGED <<cArgs, varsW, varsP, varsE>>

-----------------------------------------------------------------------------
(* The snapshots handed to Portfolio.trade and mark_to_market: a dict      *)
(* ticker -> row of fields, prices in cents                                *)

Row(price, bid, ask) == [price |-> price, bid |-> bid, ask |-> ask]

NaNRow == Row(NaN, NaN, NaN)

PSnapNames == {"s1", "s2"}

PSnapshot(name) ==
    CASE name = "s1" ->
            [t \in Tickers |->
                CASE t = "A" -> Row(1000, 990, 1010)
                  [] t = "B" -> Row(2000, 1980, 2020)
                  [] OTHER -> Row(500, 500, 500)]
      [] name = "s2" ->
            [t \in Tickers |->
                CASE t = "A" -> Row(1100, 1090, 1110)
                  [] t = "B" -> NaNRow
                  [] OTHER -> Row(500, 500, 500)]

-----------------------------------------------------------------------------
(* Portfolio (portfolio/port.py) *)

InitCash == InitCashUnits * 100

\* Portfolio.mark_on
mark_on == "price"

\* Portfolio.__init__: the fields bought and sold on
buy_on == IF tradeOn \in {"bid_ask", "ask_bid"} THEN "ask" ELSE tradeOn

sell_on == IF tradeOn \in {"bid_ask", "ask_bid"} THEN "bid" ELSE tradeOn

\* the ledger as one value
Ledger ==
    [cash |-> cash, commission |-> commission, positions |-> positions,
     subPf |-> subPf, assetQty |-> assetQty]

\* index of ticker t in a sub-portfolio's positions (a dict in insertion
\* order), 0 when it is not a key
PosIndex(pos, t) ==
    IF \E i \in 1..Len(pos) : pos[i].ticker = t
    THEN CHOOSE i \in 1..Len(pos) : pos[i].ticker = t
    ELSE 0

\* positions of sub-portfolio pf in ledger L, empty when there is none:
\* self._sub_pf_.get(pf_name, SubPortfolio(pf_name=pf_name)).positions
cur_pos(L, pf) == IF pf \in DOMAIN L.subPf THEN L.subPf[pf] ELSE <<>>

\* quantity of ticker t held in sub-portfolio pf, 0 when not held
SubQty(L, pf, t) ==
    LET pos == cur_pos(L, pf)
        i == PosIndex(pos, t)
    IN  IF i = 0 THEN 0 ELSE L.assetQty[pos[i].obj]

\* Transaction.__init__
Transaction(o, snap, quantity, trade_on) ==
    LET price == PSnapshot(snap)[AssetTicker(o)][trade_on]
    IN  [price |-> price,
         total_notional |-> FMul(price, AssetLot(o) * quantity),
         comm_total |-> total_comm(AssetComms(o), quantity * AssetLot(o), price)]

\* self._cash_ -= round(trans.total_notional + trans.comm_total, 2)
CashAfter(c, trans) == FSub(c, FAdd(trans.total_notional, trans.comm_total))

\* self._commission_[ticker] += round(trans.comm_total, 2)
CommissionAfter(cm, t, trans) ==
    IF t \in DOMAIN cm
    THEN [cm EXCEPT ![t] = FAdd(cm[t], trans.comm_total)]
    ELSE (t :> trans.comm_total) @@ cm

\* the sub-portfolio half of _update_position_: a ticker new to the
\* sub-portfolio stores the caller's Asset object itself and overwrites
\* its quantity; a ticker already held adds to the stored object's quantity
SubPfAfter(L, pf, o, quantity) ==
    LET t == AssetTicker(o)
        pos == cur_pos(L, pf)
        i == PosIndex(pos, t)
    IN  IF i = 0
        THEN [L EXCEPT
                !.subPf = (pf :> Append(pos, [ticker |-> t, obj |-> o])) @@ L.subPf,
                !.assetQty[o] = quantity]
        ELSE [L EXCEPT !.assetQty[pos[i].obj] = L.assetQty[pos[i].obj] + quantity]

\* the aggregate half of _update_position_: a deep copy on first touch
PositionsAfter(ps, o, quantity) ==
    LET t == AssetTicker(o)
    IN  IF t \in DOMAIN ps
        THEN [ps EXCEPT ![t].quantity = ps[t].quantity + quantity]
        ELSE (t :> [quantity |-> quantity, price |-> AssetPrice(o),
                    lot_size |-> AssetLot(o)]) @@ ps

update_position(L, pf, o, quantity) ==
    LET L1 == SubPfAfter(L, pf, o, quantity)
    IN  [L1 EXCEPT !.positions = PositionsAfter(L.positions, o, quantity)]

\* Portfolio._execute_order_
execute_order(L, pf, o, quantity, snap) ==
    LET trans == Transaction(o, snap, quantity, IF quantity > 0 THEN buy_on ELSE sell_on)
        L1 == [L EXCEPT !.cash = CashAfter(L.cash, trans),
                        !.commission = CommissionAfter(L.commission, AssetTicker(o), trans)]
    IN  update_position(L1, pf, o, quantity)


\* Asset.market_value of the Asset object a sub-portfolio holds: the price
\* is the one the caller's object carries
asset_market_value(L, o) == AssetPrice(o) * L.assetQty[o] * AssetLot(o)

RECURSIVE side_market_value(_, _, _)
\* mkt_val[mkt_val > 0].sum() for sgn = 1, mkt_val[mkt_val < 0].sum() for -1
side_market_value(L, pos, sgn) ==
    IF pos = <<>> THEN 0
    ELSE LET m == asset_market_value(L, Head(pos).obj)
         IN  (IF Sign(m) = sgn THEN m ELSE 0) + side_market_value(L, Tail(pos), sgn)

\* SubPortfolio._market_value_: LongShort(long, short), short as abs(...)
sub_market_value(L, pos) ==
    [long |-> side_market_value(L, pos, 1),
     short |-> Abs(side_market_value(L, pos, -1))]

\* SubPortfolio.exposure
exposure(L, pos) ==
    LET mkt_val == sub_market_value(L, pos)
    IN  Max2(mkt_val.long, Abs(mkt_val.short))

\* SubPortfolio.delta
delta(L, pos) ==
    LET mkt_val == sub_market_value(L, pos)
    IN  mkt_val.long + mkt_val.short

\* Equity(..., margin_req=.15), in percent
MarginReqPct == 15

RECURSIVE side_margin(_, _, _)
\* (m[m > 0] * r[m > 0]).sum() for sgn = 1, (m[m < 0] * r[m < 0]).sum() for
\* -1, in hundredths of a cent
side_margin(L, pos, sgn) ==
    IF pos = <<>> THEN 0
    ELSE LET m == asset_market_value(L, Head(pos).obj)
         IN  (IF Sign(m) = sgn THEN m * MarginReqPct ELSE 0)
             + side_margin(L, Tail(pos), sgn)

\* SubPortfolio.margin
sub_margin(L, pos) == Max2(side_margin(L, pos, 1), Abs(side_margin(L, pos, -1)))

\* Portfolio.margin
margin ==
    SumSet([n \in DOMAIN subPf |-> sub_margin(Ledger, subPf[n])], DOMAIN subPf)

\* Portfolio(..., tolerance=ToleranceUnits), in cents
tolerance == ToleranceUnits * 100

\* line 237: abs(cur_pf.exposure - target_value)
net_chg(L, pf, target_value) == Abs(exposure(L, cur_pos(L, pf)) - target_value)

\* the condition of line 240
below_tolerance(L, pf, target_value) ==
    net_chg(L, pf, target_value) < tolerance /\ target_value # 0

\* lines 240-244 with a return after the log
tolerance_branch_return(below, outcome) == IF below THEN "abort" ELSE outcome

\* lines 240-244: below the tolerance the call logs 'Skip trading ...' and
\* goes on to line 246
tolerance_branch(below, outcome) == outcome

\* line 235: self._sub_pf_.get(pf_name, SubPortfolio(pf_name=pf_name)) reads
\* the ledger and stores nothing in it
resolve_sub_pf(L, pf) == L

\* the guard of lines 246-251 from asset i on: "abort" is the return,
\* "raise" the AttributeError of None.get when proper_weights returned None;
\* weights.get is reached only when one of the two prices is NaN
RECURSIVE price_guard(_, _, _, _)
price_guard(assets, w, snap, i) ==
    IF i > Len(assets) THEN "pass"
    ELSE LET t == AssetTicker(assets[i])
             buy_px == PSnapshot(snap)[t][buy_on]
             sell_px == PSnapshot(snap)[t][sell_on]
         IN  IF IsNaN(buy_px) \/ IsNaN(sell_px)
             THEN IF w.isNone THEN "raise"
                  ELSE IF WeightGet(w, t).n # 0 THEN "abort"
                  ELSE price_guard(assets, w, snap, i + 1)
             ELSE price_guard(assets, w, snap, i + 1)

TargetTrade(t, o, quantity) == [ticker |-> t, asset |-> o, quantity |-> quantity]

\* lines 254-259 with the loop stopped after the first position
unwind_trades_first(L, pf) ==
    LET pos == cur_pos(L, pf)
    IN  [i \in 1..Min2(1, Len(pos)) |->
            TargetTrade(pos[i].ticker, pos[i].obj, -L.assetQty[pos[i].obj])]

\* lines 254-259: target_value == 0, one trade per position of the sub-portfolio
unwind_trades(L, pf) ==
    LET pos == cur_pos(L, pf)
    IN  [i \in 1..Len(pos) |->
            TargetTrade(pos[i].ticker, pos[i].obj, -L.assetQty[pos[i].obj])]

\* lines 266-270 with cur_val left out
target_quantity_from_flat(L, pf, o, target_value, wt, price) ==
    RoundHalfEven(target_value * wt.n, wt.d * AssetLot(o) * price)

\* lines 266-270: the quantity to trade for one asset
target_quantity(L, pf, o, target_value, wt, price) ==
    LET cur_qty == SubQty(L, pf, AssetTicker(o))
        cur_val == cur_qty * price * AssetLot(o)
    IN  RoundHalfEven(target_value * wt.n - cur_val * wt.d, wt.d * AssetLot(o) * price)

\* lines 263-270 from asset i on: raised is the TypeError / KeyError of
\* weights[ticker], or the ValueError of round(nan); the asset lists hold
\* one asset per ticker
RECURSIVE target_trades(_, _, _, _, _, _)
target_trades(L, pf, target_value, snap, assets_w, i) ==
    LET assets == assets_w.assets
        w == assets_w.weights
    IN  IF i > Len(assets) THEN [raised |-> FALSE, trd |-> <<>>]
        ELSE LET o == assets[i]
                 t == AssetTicker(o)
                 price == PSnapshot(snap)[t][mark_on]
             IN  IF w.isNone \/ t \notin DOMAIN w.map \/ IsNaN(price)
                 THEN [raised |-> TRUE, trd |-> <<>>]
                 ELSE LET rest == target_trades(L, pf, target_value, snap, assets_w, i + 1)
                          q == target_quantity(L, pf, o, target_value, w.map[t], price)
                      IN  [raised |-> rest.raised,
                           trd |-> <<TargetTrade(t, o, q)>> \o rest.trd]

NoFrame ==
    [pf |-> "", target |-> 0, snap |-> "", assets |-> <<>>, weights |-> NoWeights,
     cur_pf |-> "", below |-> FALSE, repeat |-> FALSE, trd |-> <<>>,
     scale |-> [num |-> 0, den |-> 0], before |-> <<>>]

\* the arguments of a trade call, the weights as proper_weights returned them
CallArgs(pf_name, target_value, snap, assets, w) ==
    [pf |-> pf_name, target |-> target_value, snap |-> snap, assets |-> assets,
     weights |-> w]

\* what the run observed: the outcome of the last call, the totals of
\* total_notional and comm_total over every Transaction built, the orders
\* executed in the last trade call with the sub-portfolio quantity after
\* each, the sub-portfolio quantities when that call began, the snapshots
\* handed to trade so far, the last value mark_to_market returned, the
\* number of mark_to_market calls
NoObs ==
    [lastOp |-> "", result |-> "", sumNotional |-> 0, sumComm |-> 0, log |-> <<>>,
     oldQty |-> [t \in Tickers |-> 0], snaps |-> {}, mtmSnap |-> "", mtm |-> 0,
     marks |-> 0, read |-> [nav |-> 0, margin |-> 0, total_costs |-> 0],
     prev |-> <<>>]

SetLedger(L) ==
    /\ cash' = L.cash
    /\ commission' = L.commission
    /\ positions' = L.positions
    /\ subPf' = L.subPf
    /\ assetQty' = L.assetQty

\* the running call: the ledger, the trade sizes and what was observed
RunState(L, trd) ==
    [L |-> L, trd |-> trd, sumNotional |-> obs.sumNotional,
     sumComm |-> obs.sumComm, log |-> obs.log]

\* one _execute_order_ of the running call, in pass `phase`
Execute(R, phase, o, quantity) ==
    LET trans == Transaction(o, frame.snap, quantity,
                             IF quantity > 0 THEN buy_on ELSE sell_on)
        L == execute_order(R.L, frame.pf, o, quantity, frame.snap)
    IN  [R EXCEPT
            !.L = L,
            !.sumNotional = FAdd(@, trans.total_notional),
            !.sumComm = FAdd(@, trans.comm_total),
            !.log = Append(@, [phase |-> phase, ticker |-> AssetTicker(o),
                               quantity |-> quantity,
                               after |-> SubQty(L, frame.pf, AssetTicker(o))])]

\* trade, lines 235-276: up to the computed trade sizes
TradeCall(pf_name, target_value, snap, assets, weights) ==
    /\ pc = "idle"
    /\ ops < MaxOps
    /\ ops' = ops + 1
    /\ UNCHANGED tradeOn
    /\ LET L == resolve_sub_pf(Ledger, pf_name)
           w == proper_weights(assets, weights)
           g == price_guard(assets, w, snap, 1)
           tt == IF target_value = 0
                 THEN [raised |-> FALSE, trd |-> unwind_trades(L, pf_name)]
                 ELSE target_trades(L, pf_name, target_value, snap,
                                    [assets |-> assets, weights |-> w], 1)
           below == below_tolerance(L, pf_name, target_value)
           result == tolerance_branch(below,
                                      IF g # "pass" THEN g
                                      ELSE IF tt.raised THEN "raise" ELSE "running")
       IN  /\ SetLedger(L)
           /\ frame' = [NoFrame EXCEPT
                    !.pf = pf_name, !.target = target_value, !.snap = snap,
                    !.assets = assets, !.weights = w,
                    !.cur_pf = IF pf_name \in DOMAIN subPf THEN "ledger" ELSE "temp",
                    !.below = below,
                    !.repeat = (obs.prev = CallArgs(pf_name, target_value, snap, assets, w)),
                    !.trd = IF result = "running" THEN tt.trd ELSE <<>>,
                    !.before = Ledger]
           /\ pc' = IF result = "running" THEN "unwind" ELSE "return"
           /\ obs' = [obs EXCEPT
                    !.lastOp = "trade", !.result = result, !.log = <<>>,
                    !.mtmSnap = "", !.mtm = 0, !.read = NoObs.read, !.prev = <<>>,
                    !.oldQty = [t \in Tickers |-> SubQty(Ledger, pf_name, t)],
                    !.snaps = @ \cup {snap}]

\* lines 286-287: the quantity the unwind pass sees; cur_pf is the object
\* bound at line 235, the ledger's sub-portfolio or a fresh empty one
cur_asset_pos(L, t) ==
    IF frame.cur_pf = "ledger" THEN SubQty(L, frame.pf, t) ELSE 0

\* lines 290-292 with the sign of the held quantity in place of its opposite
unwind_pos_away(quantity, cur) ==
    IF quantity * cur < 0
    THEN Sign(cur) * Min2(Abs(quantity), Abs(cur))
    ELSE 0

\* lines 290-292 without the min: the whole order goes out in the unwind pass
unwind_pos_whole(quantity, cur) ==
    IF quantity * cur < 0 THEN quantity ELSE 0

\* lines 290-292
unwind_pos(quantity, cur) ==
    IF quantity * cur < 0
    THEN Sign(-cur) * Min2(Abs(quantity), Abs(cur))
    ELSE 0

\* trade, lines 284-304: the unwind loop from entry i on
RECURSIVE unwind_loop(_, _)
unwind_loop(R, i) ==
    IF i > Len(R.trd) THEN R
    ELSE LET e == R.trd[i]
             u == unwind_pos(e.quantity, cur_asset_pos(R.L, AssetTicker(e.asset)))
         IN  IF u = 0 THEN unwind_loop(R, i + 1)
             ELSE unwind_loop([Execute(R, "unwind", e.asset, u) EXCEPT
                                  !.trd[i].quantity = e.quantity - u], i + 1)

\* lines 307-310: asset.lot_size * qty * snapshot[asset.ticker][mark_on]
left_val(e, snap) ==
    FMul(PSnapshot(snap)[AssetTicker(e.asset)][mark_on], AssetLot(e.asset) * e.quantity)

\* sum of the entries of left_val that satisfy the mask (NaN satisfies none)
RECURSIVE MaskedSum(_, _, _)
MaskedSum(trd, snap, sgn) ==
    IF trd = <<>> THEN 0
    ELSE LET v == left_val(Head(trd), snap)
         IN  (IF ~IsNaN(v) /\ Sign(v) = sgn THEN v ELSE 0) + MaskedSum(Tail(trd), snap, sgn)

\* line 311: abs(left_val).sum() == 0, false when an entry is NaN
NothingLeft(trd, snap) ==
    \A i \in 1..Len(trd) : FEq(left_val(trd[i], snap), 0)

\* lines 314-317 with the cash the call began with
scale_of_entry(trd, snap, c) ==
    [num |-> Max2(MaskedSum(trd, snap, 1), Abs(MaskedSum(trd, snap, -1))),
     den |-> IF IsNaN(frame.before.cash) THEN NaN ELSE Abs(frame.before.cash)]

\* lines 314-317: scale as the fraction num / den; den is NaN when cash is
scale_of(trd, snap, c) ==
    [num |-> Max2(MaskedSum(trd, snap, 1), Abs(MaskedSum(trd, snap, -1))),
     den |-> IF IsNaN(c) THEN NaN ELSE Abs(c)]

\* scale > 1.: false for a NaN scale (cash NaN, or 0 / 0), true for x / 0
ScaleAboveOne(sc) ==
    /\ ~IsNaN(sc.den)
    /\ sc.num > sc.den

\* line 321 without the test scale > 1. of line 320
scaled_quantity_always(quantity, sc) ==
    IF IsNaN(sc.den) \/ sc.den = 0 \/ sc.num = 0 THEN 0
    ELSE RoundHalfEven(quantity * sc.den, sc.num)

\* line 321: round(quantity / scale, 0); quantity / inf is 0
scaled_quantity(quantity, sc) ==
    IF ScaleAboveOne(sc)
    THEN IF sc.den = 0 THEN 0 ELSE RoundHalfEven(quantity * sc.den, sc.num)
    ELSE quantity

\* what a pass leaves behind
SetRun(R, res) ==
    /\ SetLedger(R.L)
    /\ obs' = [obs EXCEPT !.result = res, !.sumNotional = R.sumNotional,
                          !.sumComm = R.sumComm, !.log = R.log]

\* trade, lines 284-317: the unwind loop, the early return and the scale
UnwindPass ==
    /\ pc = "unwind"
    /\ UNCHANGED <<tradeOn, ops, varsW, varsC, varsE>>
    /\ LET R == unwind_loop(RunState(Ledger, frame.trd), 1)
       IN  IF NothingLeft(R.trd, frame.snap)
           THEN /\ pc' = "return"
                /\ frame' = [frame EXCEPT !.trd = R.trd]
                /\ SetRun(R, "done")
           ELSE /\ pc' = "initiate"
                /\ frame' = [frame EXCEPT
                        !.trd = R.trd,
                        !.scale = scale_of(R.trd, frame.snap, R.L.cash)]
                /\ SetRun(R, "running")

\* trade, lines 320-325: the loop that enters new trades, from entry i on
RECURSIVE initiate_loop(_, _)
initiate_loop(R, i) ==
    IF i > Len(R.trd) THEN R
    ELSE LET e == R.trd[i]
             q == scaled_quantity(e.quantity, frame.scale)
         IN  IF q = 0 THEN initiate_loop(R, i + 1)
             ELSE initiate_loop(Execute(R, "initiate", e.asset, q), i + 1)

InitiatePass ==
    /\ pc = "initiate"
    /\ pc' = "return"
    /\ UNCHANGED <<tradeOn, ops, frame, varsW, varsC, varsE>>
    /\ SetRun(initiate_loop(RunState(Ledger, frame.trd), 1), "done")

\* trade returns: by the return of line 251 or 311, by an exception, or
\* after the last iteration; the frame is gone.  obs.prev keeps the
\* arguments of a call that completed with its quantities unscaled, for
\* as long as the caller can make another call
TradeReturn ==
    /\ pc = "return"
    /\ pc' = "idle"
    /\ frame' = NoFrame
    /\ obs' = [obs EXCEPT !.lastOp = "", !.result = "", !.log = <<>>,
                          !.oldQty = [t \in Tickers |-> 0],
                          !.prev = IF /\ obs.result = "done"
                                      /\ ~ScaleAboveOne(frame.scale)
                                      /\ ops < MaxOps
                                   THEN CallArgs(frame.pf, frame.target, frame.snap,
                                                 frame.assets, frame.weights)
                                   ELSE <<>>]
    /\ UNCHANGED <<tradeOn, ops, cash, commission, positions, subPf, assetQty>>
    /\ UNCHANGED <<varsW, varsC, varsE>>

\* SubPortfolio.is_flat
is_flat(L, pos) == \A i \in 1..Len(pos) : L.assetQty[pos[i].obj] = 0

\* Asset.market_value of an aggregate position
market_value_of(p) == FMul(p.price, p.quantity * p.lot_size)

RECURSIVE FSumSet(_, _)
FSumSet(f, S) ==
    IF S = {} THEN 0
    ELSE LET k == CHOOSE x \in S : TRUE IN FAdd(f[k], FSumSet(f, S \ {k}))

\* Portfolio.market_value
market_value(ps) == FSumSet([t \in DOMAIN ps |-> market_value_of(ps[t])], DOMAIN ps)

\* lines 430-431 with no sub-portfolio popped
purged_sub_pf_none(L) == L.subPf

\* lines 430-434: the purge
purged_sub_pf(L) ==
    LET keep == {n \in DOMAIN L.subPf : ~is_flat(L, L.subPf[n])}
    IN  [n \in keep |-> L.subPf[n]]

purged_positions(ps) ==
    LET keep == {t \in DOMAIN ps : ps[t].quantity # 0}
    IN  [t \in keep |-> ps[t]]

\* lines 437-440 without the assignment of line 440
marked_price_kept(p, t, snap) == p.price

\* lines 437-440 without the isnan test of line 440
marked_price_any(p, t, snap) ==
    IF snap = "None" THEN p.price ELSE PSnapshot(snap)[t][mark_on]

\* lines 437-440: the price of one remaining position; snap "None" is
\* mark_to_market() without a snapshot
marked_price(p, t, snap) ==
    IF snap = "None" THEN p.price
    ELSE LET price == PSnapshot(snap)[t][mark_on]
         IN  IF ~IsNaN(price) THEN price ELSE p.price

\* Portfolio.mark_to_market: the ledger after the call
mark_to_market(L, snap) ==
    LET ps == purged_positions(L.positions)
    IN  [L EXCEPT !.subPf = purged_sub_pf(L),
                  !.positions = [t \in DOMAIN ps |->
                                    [ps[t] EXCEPT !.price = marked_price(ps[t], t, snap)]]]

MarkToMarket(snap) ==
    /\ pc = "idle"
    /\ obs.marks < MaxMarks
    /\ LET L == mark_to_market(Ledger, snap)
       IN  /\ SetLedger(L)
           /\ obs' = [obs EXCEPT !.lastOp = "mtm", !.mtmSnap = snap,
                                 !.marks = @ + 1, !.read = NoObs.read,
                                 !.prev = <<>>,
                                 !.mtm = market_value(L.positions)]
    /\ UNCHANGED <<tradeOn, pc, frame, ops>>

\* Portfolio.total_costs, in cents
total_costs == FSumSet(commission, DOMAIN commission)

\* Portfolio.nav in units of 0.0001 percent:
\* round((cash + market_value) / init_cash * 100, 4)
nav ==
    LET v == FAdd(cash, market_value(positions))
    IN  IF IsNaN(v) THEN NaN
        ELSE RoundHalfEvenSum((v \div InitCashUnits) * 10000,
                              (v % InitCashUnits) * 10000, InitCashUnits)

\* the caller reads the properties nav, margin and total_costs of the
\* ledger it has just marked
ReadValues ==
    /\ pc = "idle"
    /\ obs.lastOp = "mtm"
    /\ obs' = [obs EXCEPT !.lastOp = "read",
                          !.read = [nav |-> nav, margin |-> margin,
                                    total_costs |-> total_costs]]
    /\ UNCHANGED <<tradeOn, cash, commission, positions, subPf, assetQty, pc, frame, ops>>

-----------------------------------------------------------------------------
(* The ledger under sequences of trade and mark_to_market calls *)

PfNames == {"p1", "p2"}

\* target_value, in cents
Targets == {0, 4500, -9000}

W1 == SomeWeights(("A" :> Rat(1, 1)) @@ ("B" :> Rat(-1, 1)))

W2 == SomeWeights(("A" :> Rat(1, 1)) @@ ("B" :> Rat(0, 1)))

\* the (assets, weights) arguments a caller passes: a long/short pair, a
\* pair whose second weight is 0, and the default weights for two assets
\* and for one (a1b is a second Asset object of ticker A)
PArgs ==
    {[assets |-> <<"a1", "a2">>, weights |-> W1],
     [assets |-> <<"a1", "a2">>, weights |-> W2],
     [assets |-> <<"a1", "a2">>, weights |-> NoWeights],
     [assets |-> <<"a1b">>, weights |-> NoWeights]}

InitP ==
    /\ tradeOn = mark_on
    /\ cash = InitCash
    /\ commission = <<>>
    /\ positions = <<>>
    /\ subPf = <<>>
    /\ assetQty = [o \in Objects |-> 0]
    /\ pc = "idle"
    /\ frame = NoFrame
    /\ obs = NoObs
    /\ ops = 0

\* the caller is outside any call when it makes one
Trade ==
    /\ pc = "idle"
    /\ ops < MaxOps
    /\ UNCHANGED <<varsW, varsC, varsE>>
    /\ \E pf_name \in PfNames, target_value \in Targets, snap \in PSnapNames,
          a \in PArgs :
           TradeCall(pf_name, target_value, snap, a.assets, a.weights)

Mark ==
    /\ pc = "idle"
    /\ UNCHANGED <<varsW, varsC, varsE>>
    /\ \E snap \in PSnapNames \cup {"None"} : MarkToMarket(snap)

Read ==
    /\ pc = "idle"
    /\ UNCHANGED <<varsW, varsC, varsE>>
    /\ ReadValues

NextP ==
    \/ Trade
    \/ UnwindPass
    \/ InitiatePass
    \/ TradeReturn
    \/ Mark
    \/ Read

-----------------------------------------------------------------------------
(* MarketSnapshot (data_handler/__init__.py)                               *)
(* A row's dict is modelled in two parts: fields holds its string keys,    *)
(* index the values under its integer keys 0, 1, ...  A timestamp is a     *)
(* positive integer; 0 stands for None.                                    *)

\* float('inf'); every other number of the model is smaller
Inf == 2000000000

\* MarketSnapshotRow()
EmptyRow == [timestamp |-> 0, fields |-> <<>>, index |-> <<>>]

\* MarketSnapshotRow(event=event): self.snapshot.update(**data) raises a
\* TypeError for a key that is no string, which new_row_raises tells
new_row_raises(ev) == ev.data.index # <<>>

new_row(ev) == [timestamp |-> ev.timestamp, fields |-> ev.data.fields, index |-> <<>>]

\* dict.update on the integer keys
MergeIndex(old, new) ==
    [i \in 1..Max2(Len(old), Len(new)) |-> IF i <= Len(new) THEN new[i] ELSE old[i]]

\* MarketSnapshotRow.update
row_update(row, ev) ==
    [timestamp |-> ev.timestamp,
     fields |-> ev.data.fields @@ row.fields,
     index |-> MergeIndex(row.index, ev.data.index)]

\* MarketSnapshot.__getitem__: self.snapshot.get(item, MarketSnapshotRow())
snap_get(snap, ticker) ==
    IF ticker \in DOMAIN snap.rows THEN snap.rows[ticker] ELSE EmptyRow

\* lines 69-70 with the event's timestamp taken whatever the one held
latest_timestamp_last(snap, ev) == ev.timestamp

\* MarketSnapshot.update, lines 69-70
latest_timestamp(snap, ev) ==
    IF snap.timestamp = 0 THEN ev.timestamp
    ELSE IF snap.timestamp < ev.timestamp THEN ev.timestamp
    ELSE snap.timestamp

\* MarketSnapshot.update with a MarketEvent whose data is a Series: the
\* snapshot after the call and whether the call raised
market_update(snap, ev) ==
    LET s1 == [snap EXCEPT !.timestamp = latest_timestamp(snap, ev)]
    IN  IF ev.ticker \notin DOMAIN snap.rows
        THEN IF new_row_raises(ev)
             THEN [snap |-> s1, out |-> "TypeError"]
             ELSE [snap |-> [s1 EXCEPT !.rows = (ev.ticker :> new_row(ev)) @@ snap.rows],
                   out |-> "done"]
        ELSE [snap |-> [s1 EXCEPT !.rows[ev.ticker] = row_update(snap.rows[ev.ticker], ev)],
              out |-> "done"]

\* MarketSnapshot.update: the isinstance test of line 66, then the branch of
\* a MarketEvent whose data is a Series
snapshot_update(snap, ev) ==
    IF ev.type # "MARKET" THEN [snap |-> snap, out |-> "done"]
    ELSE market_update(snap, ev)

\* line 42 with np.nan as the default of the get
row_get_nan(row, field) ==
    IF field \in DOMAIN row.fields
    THEN [isNone |-> FALSE, value |-> row.fields[field]]
    ELSE [isNone |-> FALSE, value |-> NaN]

\* MarketSnapshotRow.__getitem__: self.snapshot.get(item, None)
row_get(row, field) ==
    IF field \in DOMAIN row.fields
    THEN [isNone |-> FALSE, value |-> row.fields[field]]
    ELSE [isNone |-> TRUE, value |-> NaN]

-----------------------------------------------------------------------------
(* SimulationEngine (execution/simu_exec.py) *)

\* 'bid' in trade_on and 'ask' in trade_on
HasBidAsk(trade_on) == trade_on \in {"bid_ask", "bid_ask_1"}

\* SimulationEngine.__init__: the else branch of line 36 assigns _sell_on_
\* twice and leaves _buy_on_ unset
SimulationEngine(inst_exec, trade_on) ==
    [inst_exec |-> inst_exec,
     trade_on |-> trade_on,
     has_buy_on |-> HasBidAsk(trade_on),
     buy_on |-> CASE trade_on = "bid_ask_1" -> "ask_1"
                  [] trade_on = "bid_ask" -> "ask"
                  [] OTHER -> "",
     sell_on |-> CASE trade_on = "bid_ask_1" -> "bid_1"
                   [] trade_on = "bid_ask" -> "bid"
                   [] OTHER -> trade_on,
     calls |-> 0]

\* outcomes of _get_fill_price_: a returned price, the returned np.nan, an
\* exception, or no return at all
Fill(price) == [out |-> "fill", price |-> price]

NoFill == [out |-> "nofill", price |-> NaN]

Raised(exc) == [out |-> exc, price |-> NaN]

Hang == [out |-> "hang", price |-> NaN]

\* line 90, `field not in snap`: MarketSnapshotRow has neither __contains__
\* nor __iter__, so the test calls snap[0], snap[1], ... until one equals
\* field or raises IndexError; __getitem__ returns None for a missing key
\* and never raises, so the test ends only on an integer key holding field
field_found(row, field) == \E i \in 1..Len(row.index) : row.index[i] = field

\* a limit argument: None, or a float
NoLimit == [isNone |-> TRUE, value |-> NaN]

Limit(v) == [isNone |-> FALSE, value |-> v]

\* lines 94-112 without the instant-execution test of lines 98-104
priced_any_time(eng, snap, row, field, timestamp, quantity, limit) ==
    IF field \notin DOMAIN row.fields THEN Raised("TypeError")
    ELSE LET px == row.fields[field]
         IN  IF IsNaN(px) THEN NoFill
             ELSE IF limit.isNone THEN Fill(px)
             ELSE IF IsNaN(limit.value) THEN NoFill
             ELSE IF quantity > 0 /\ limit.value <= px THEN Fill(px)
             ELSE IF quantity < 0 /\ limit.value >= px THEN Fill(px)
             ELSE NoFill

\* lines 94-112; snap[field] is None for a missing key and np.isnan(None)
\* a TypeError
priced(eng, snap, row, field, timestamp, quantity, limit) ==
    IF field \notin DOMAIN row.fields THEN Raised("TypeError")
    ELSE LET px == row.fields[field]
         IN  IF IsNaN(px) THEN NoFill
             ELSE IF eng.inst_exec /\ snap.timestamp # 0 /\ timestamp > snap.timestamp
             THEN NoFill
             ELSE IF limit.isNone THEN Fill(px)
             ELSE IF IsNaN(limit.value) THEN NoFill
             ELSE IF quantity > 0 /\ limit.value <= px THEN Fill(px)
             ELSE IF quantity < 0 /\ limit.value >= px THEN Fill(px)
             ELSE NoFill

\* SimulationEngine._get_fill_price_
get_fill_price(eng, snap, timestamp, ticker, quantity, limit) ==
    IF quantity = 0 THEN NoFill
    ELSE IF quantity > 0 /\ ~eng.has_buy_on THEN Raised("AttributeError")
    ELSE LET row == snap_get(snap, ticker)
             field == IF quantity > 0 THEN eng.buy_on ELSE eng.sell_on
         IN  IF ~field_found(row, field) THEN Hang
             ELSE priced(eng, snap, row, field, timestamp, quantity, limit)

\* lines 139-143 with the order's timestamp in place of the snapshot's
FillEvent_at_order_time(snap, event, fill_cost) ==
    [timestamp |-> event.timestamp, strategy |-> event.strategy,
     ticker |-> event.ticker, quantity |-> event.quantity, fill_cost |-> fill_cost]

\* the FillEvent of lines 139-143
FillEvent(snap, event, fill_cost) ==
    [timestamp |-> snap.timestamp, strategy |-> event.strategy,
     ticker |-> event.ticker, quantity |-> event.quantity, fill_cost |-> fill_cost]

\* on_order: the outcome of the fill evaluation, "ignored" for an event
\* that is no order
order_outcome(eng, snap, event) ==
    IF event.type = "MKT"
    THEN get_fill_price(eng, snap, event.timestamp, event.ticker, event.quantity, NoLimit)
    ELSE IF event.type = "LMT"
    THEN get_fill_price(eng, snap, event.timestamp, event.ticker, event.quantity,
                        Limit(event.limit))
    ELSE [out |-> "ignored", price |-> NaN]

NoCall == [op |-> "", event |-> <<>>, out |-> "", price |-> NaN, queued |-> FALSE]

\* a call is made only while no earlier call is still running
CanCall == engOut.out # "hang" /\ engine.calls < MaxCalls

\* SimulationEngine.update
Update(ev) ==
    /\ CanCall
    /\ LET r == snapshot_update(snapshot, ev)
       IN  /\ snapshot' = r.snap
           /\ engOut' = [NoCall EXCEPT !.op = "update", !.event = ev, !.out = r.out]
    /\ engine' = [engine EXCEPT !.calls = @ + 1]
    /\ UNCHANGED events_queue

\* SimulationEngine.on_order
OnOrder(event) ==
    /\ CanCall
    /\ LET r == order_outcome(engine, snapshot, event)
       IN  /\ events_queue' = IF r.out = "fill"
                              THEN Append(events_queue, FillEvent(snapshot, event, r.price))
                              ELSE events_queue
           /\ engOut' = [NoCall EXCEPT !.op = "on_order", !.event = event, !.out = r.out,
                                       !.price = r.price, !.queued = (r.out = "fill")]
    /\ engine' = [engine EXCEPT !.calls = @ + 1]
    /\ UNCHANGED snapshot

\* SignalEvent.order_quantity: a SignalEvent passed the assert of its
\* __init__, so its target_value and target_qty are None, and the quantity
\* of the first asset, None * weight, is a TypeError; without assets the
\* list is empty
order_quantity_raises(event) == Len(event.assets) > 0

\* SimulationEngine.on_signal: order_quantity is evaluated before the loop
\* over it; the loop body is reached for no SignalEvent
OnSignal(event) ==
    /\ CanCall
    /\ engOut' = [NoCall EXCEPT
                     !.op = "on_signal", !.event = event,
                     !.out = IF event.type # "SIGNAL" THEN "ignored"
                             ELSE IF order_quantity_raises(event) THEN "TypeError"
                             ELSE "done"]
    /\ engine' = [engine EXCEPT !.calls = @ + 1]
    /\ UNCHANGED <<snapshot, events_queue>>

-----------------------------------------------------------------------------
(* The engine under sequences of market updates and orders *)

ETickers == {"A", "B"}

Times == 1..MaxTime

\* the data of the market events, all for ticker A
EData ==
    {[fields |-> ("price" :> 1000), index |-> <<>>],
     [fields |-> ("price" :> NaN), index |-> <<>>],
     [fields |-> ("price" :> Inf), index |-> <<>>],
     [fields |-> ("bid" :> 990) @@ ("ask" :> 1010), index |-> <<>>],
     [fields |-> <<>>, index |-> <<"price", "bid", "ask">>]}

MarketEvents ==
    {[type |-> "MARKET", ticker |-> "A", timestamp |-> ts, data |-> d] :
        ts \in Times, d \in EData}

LimitValues == {900, 1000, 1100, NaN, Inf}

\* MarketOrderEvent, LimitOrderEvent, and a FillEvent handed to on_order
Orders ==
    {[type |-> "MKT", timestamp |-> ts, strategy |-> "s", ticker |-> t,
      quantity |-> q, limit |-> NaN] :
        ts \in Times, t \in ETickers, q \in {-1, 1}}
    \cup {[type |-> "LMT", timestamp |-> ts, strategy |-> "s", ticker |-> t,
           quantity |-> q, limit |-> l] :
        ts \in Times, t \in ETickers, q \in {-1, 1}, l \in LimitValues}
    \cup {[type |-> "FILL", timestamp |-> 1, strategy |-> "s", ticker |-> "A",
           quantity |-> 1, limit |-> NaN]}

\* SignalEvents without and with assets, and an order handed to on_signal
Signals ==
    {[type |-> "SIGNAL", timestamp |-> MaxTime, strategy |-> "s", assets |-> a,
      order_type |-> "MKT"] : a \in {<<>>, <<"a1">>}}
    \cup {[type |-> "MKT", timestamp |-> MaxTime, strategy |-> "s", assets |-> <<"a1">>,
           order_type |-> "MKT"]}

TradeOnConfigs == {"price", "bid_ask", "bid_ask_1"}

InitE ==
    /\ engine \in {SimulationEngine(i, c) : i \in BOOLEAN, c \in TradeOnConfigs}
    /\ snapshot = [timestamp |-> 0, rows |-> <<>>]
    /\ events_queue = <<>>
    /\ engOut = NoCall

\* no engine at work
IdleE ==
    /\ engine = SimulationEngine(FALSE, "price")
    /\ snapshot = [timestamp |-> 0, rows |-> <<>>]
    /\ events_queue = <<>>
    /\ engOut = NoCall

MarketUpdate ==
    /\ CanCall
    /\ UNCHANGED <<varsW, varsC, varsP>>
    /\ \E ev \in MarketEvents : Update(ev)

Order ==
    /\ CanCall
    /\ UNCHANGED <<varsW, varsC, varsP>>
    /\ \E event \in Orders : OnOrder(event)

Signal ==
    /\ CanCall
    /\ UNCHANGED <<varsW, varsC, varsP>>
    /\ \E event \in Signals : OnSignal(event)

NextE == MarketUpdate \/ Order \/ Signal

-----------------------------------------------------------------------------
(* The snapshot under sequences of updates and lookups *)

\* snapshot[ticker][field], as _get_fill_price_ and Transaction read it
Lookup(ticker, field) ==
    /\ CanCall
    /\ LET v == row_get(snap_get(snapshot, ticker), field)
       IN  engOut' = [NoCall EXCEPT !.op = "lookup",
                                   !.event = [ticker |-> ticker, field |-> field],
                                   !.out = IF v.isNone THEN "None" ELSE "value",
                                   !.price = v.value]
    /\ engine' = [engine EXCEPT !.calls = @ + 1]
    /\ UNCHANGED <<snapshot, events_queue>>

\* the data of the events of two tickers: string labels, and one Series
\* with an integer label
SData ==
    {[fields |-> ("price" :> 1000) @@ ("bid" :> 990), index |-> <<>>],
     [fields |-> ("price" :> 1100), index |-> <<>>],
     [fields |-> ("ask" :> 1010), index |-> <<"ask">>]}

\* market events, and an order event handed to update
SnapEvents ==
    {[type |-> "MARKET", ticker |-> t, timestamp |-> ts, data |-> d] :
        t \in ETickers, ts \in Times, d \in SData}
    \cup {[type |-> "MKT", ticker |-> "A", timestamp |-> MaxTime,
           data |-> [fields |-> ("price" :> 1000), index |-> <<>>]]}

LookupTickers == ETickers \cup {"C"}

LookupFields == {"price", "bid", "ask"}

SnapUpdate ==
    /\ CanCall
    /\ UNCHANGED <<varsW, varsC, varsP>>
    /\ \E ev \in SnapEvents : Update(ev)

SnapLookup ==
    /\ CanCall
    /\ UNCHANGED <<varsW, varsC, varsP>>
    /\ \E t \in LookupTickers, f \in LookupFields : Lookup(t, f)

NextS == SnapUpdate \/ SnapLookup

-----------------------------------------------------------------------------
(* Specifications *)

\* proper_weights on drawn inputs
InitWeights == InitW /\ IdleC /\ InitP /\ IdleE

NextW == ApplyDefault \/ ApplyWeights \/ ApplyAgain

SpecWeights == InitWeights /\ [][NextW]_vars

\* commission schedules parsed from spec strings and applied to trades
InitComms == IdleW /\ InitC /\ InitP /\ IdleE

NextC == Parse \/ Calculate

SpecComms == InitComms /\ [][NextC]_vars

\* the ledger of a portfolio that trades on the field it marks on
Init == IdleW /\ IdleC /\ InitP /\ IdleE

Next == NextP

Spec == Init /\ [][Next]_vars

\* the market snapshot
InitSnapshot == IdleW /\ IdleC /\ InitP /\ IdleE

SpecSnapshot == InitSnapshot /\ [][NextS]_vars

\* the simulation engine
InitEngine == IdleW /\ IdleC /\ InitP /\ InitE

SpecEngine == InitEngine /\ [][NextE]_vars

-----------------------------------------------------------------------------
(* Properties of the ledger (Spec) *)

\* the five parts of the ledger a trade call may change
LedgerUnchanged == frame.before = Ledger

\* quantity of ticker t summed over the sub-portfolios that hold it
SubPfSum(t) == SumSet([n \in DOMAIN subPf |-> SubQty(Ledger, n, t)], DOMAIN subPf)

AggregateQty(t) == IF t \in DOMAIN positions THEN positions[t].quantity ELSE 0

\* C1, as the spec states it: in every state cash equals init_cash minus
\* the sum, over the transactions executed so far, of signed notional plus
\* commission.
C1_AsStated ==
    FEq(cash, FSub(InitCash, FAdd(obs.sumNotional, obs.sumComm)))

\* C2, as the spec states it: between trade calls, for every ticker the
\* aggregate quantity equals the sum of the ticker's quantity over the
\* sub-portfolios holding it.
C2_AsStated ==
    pc = "idle" => \A t \in Tickers : AggregateQty(t) = SubPfSum(t)

\* the weight the spec gives asset i of the call: the normalized weight
\* of its ticker, by default +1 for the first asset and -1 for the second
StatedWeight(i) ==
    IF frame.weights.isNone THEN Rat(0, 1)
    ELSE IF AssetTicker(frame.assets[i]) \in DOMAIN frame.weights.map
    THEN frame.weights.map[AssetTicker(frame.assets[i])]
    ELSE IF frame.assets[i] \in DOMAIN frame.weights.map
    THEN frame.weights.map[frame.assets[i]]
    ELSE Rat(0, 1)

\* an asset of the call with a nonzero weight and no buy or sell price
PriceUnavailable(i) ==
    LET row == PSnapshot(frame.snap)[AssetTicker(frame.assets[i])]
    IN  /\ StatedWeight(i).n # 0
        /\ IsNaN(row[buy_on]) \/ IsNaN(row[sell_on])

\* C3, as the spec states it: a trade call that finds an asset with a
\* nonzero weight and an unavailable price returns having changed nothing,
\* and a call that ends otherwise than by running its passes has changed
\* nothing.
C3_AsStated ==
    pc = "return" =>
        /\ (\E i \in 1..Len(frame.assets) : PriceUnavailable(i)) => LedgerUnchanged
        /\ obs.result \in {"abort", "raise"} => LedgerUnchanged

\* mark_to_market(snapshot) has just returned, every trade so far was
\* handed that same snapshot, and the ledger trades on the field it marks on
MarkedAtTradedPrices ==
    /\ pc = "idle"
    /\ obs.lastOp = "mtm"
    /\ obs.mtmSnap \in PSnapNames
    /\ obs.snaps \subseteq {obs.mtmSnap}
    /\ buy_on = mark_on /\ sell_on = mark_on

\* round(nav * init_cash / 100 + total_costs), in currency units; nav is in
\* units of 0.0001 percent and total_costs in cents
RoundedNavPlusCosts ==
    LET a == nav \div 10000
        b == nav % 10000
        x == a * InitCashUnits + total_costs
    IN  RoundHalfEvenSum(x \div 100, (x % 100) * 10000 + b * InitCashUnits, 1000000)

C5_UnwindBound ==
    pc = "return" =>
        \A i \in 1..Len(obs.log) :
            Abs(obs.log[i].after) <=
                Max2(Abs(obs.oldQty[obs.log[i].ticker]),
                     Abs(SubQty(Ledger, frame.pf, obs.log[i].ticker)))

\* C5's case: a call that flipped the sign of a holding, by an unwind to 0
\* and then an initiate
C5_Witness ==
    /\ pc = "return"
    /\ \E i, j \in 1..Len(obs.log) :
        /\ i < j
        /\ obs.log[i].ticker = obs.log[j].ticker
        /\ obs.log[i].phase = "unwind" /\ obs.log[i].after = 0
        /\ obs.log[j].phase = "initiate"
        /\ obs.oldQty[obs.log[j].ticker] * obs.log[j].after < 0
        /\ SubQty(Ledger, frame.pf, obs.log[j].ticker) = obs.log[j].after

\* the step is a call of mark_to_market
MarkStep == obs'.marks = obs.marks + 1

RECURSIVE SideQty(_, _, _)
\* the quantity a sub-portfolio's positions hold on one side (sign 1 long,
\* -1 short), summed over the positions
SideQty(qty, pos, sign) ==
    IF pos = <<>> THEN 0
    ELSE (IF qty[Head(pos).obj] * sign > 0 THEN Abs(qty[Head(pos).obj]) ELSE 0)
         + SideQty(qty, Tail(pos), sign)

\* long quantity 0 and short quantity 0
Flat(qty, pos) == SideQty(qty, pos, 1) = 0 /\ SideQty(qty, pos, -1) = 0

\* C20: right after a mark_to_market call the ledger holds no flat
\* sub-portfolio and no aggregate position of quantity 0, and every
\* sub-portfolio that was not flat and every position of nonzero quantity
\* is kept with the quantity it had.
C20_PurgeOnMark ==
    [][MarkStep =>
          /\ \A n \in DOMAIN subPf' : ~Flat(assetQty', subPf'[n])
          /\ \A t \in DOMAIN positions' : positions'[t].quantity # 0
          /\ \A n \in DOMAIN subPf :
                 ~Flat(assetQty, subPf[n]) =>
                     n \in DOMAIN subPf' /\ subPf'[n] = subPf[n]
          /\ \A t \in DOMAIN positions :
                 positions[t].quantity # 0 =>
                     /\ t \in DOMAIN positions'
                     /\ positions'[t].quantity = positions[t].quantity
          /\ assetQty' = assetQty]_vars

\* a mark_to_market call has purged an unwound position and kept a held
\* one: B was traded (commission was paid on it) and is gone from the
\* positions, A is held in a sub-portfolio
C20_Witness ==
    /\ obs.lastOp = "mtm"
    /\ "B" \in DOMAIN commission /\ "B" \notin DOMAIN positions
    /\ "A" \in DOMAIN positions
    /\ DOMAIN subPf # {}

\* the step reads nav, margin and total_costs
ReadStep == obs'.lastOp = "read" /\ obs.lastOp # "read"

QtyIn(ps, t) == IF t \in DOMAIN ps THEN ps[t].quantity ELSE 0

\* a trade call with target 0 is returning, and every asset its
\* sub-portfolio held when it began has a buy and a sell price in the
\* snapshot
UnwindOfPricedHoldings ==
    /\ pc = "return"
    /\ frame.target = 0
    /\ \A t \in Tickers :
           obs.oldQty[t] # 0 =>
               /\ ~IsNaN(PSnapshot(frame.snap)[t][buy_on])
               /\ ~IsNaN(PSnapshot(frame.snap)[t][sell_on])

\* every held asset is at 0, the aggregate went down by what the
\* sub-portfolio held, and the orders executed are one per held asset, for
\* minus the quantity held
FullyUnwound ==
    /\ \A t \in Tickers :
           /\ SubQty(Ledger, frame.pf, t) = 0
           /\ QtyIn(positions, t) = QtyIn(frame.before.positions, t) - obs.oldQty[t]
           /\ Cardinality({i \in 1..Len(obs.log) : obs.log[i].ticker = t})
                  = IF obs.oldQty[t] = 0 THEN 0 ELSE 1
    /\ \A i \in 1..Len(obs.log) :
           obs.log[i].quantity = -obs.oldQty[obs.log[i].ticker]

\* C22, as the spec states it: a trade with target 0 on a sub-portfolio
\* whose held assets all have available prices brings every held quantity
\* to 0, reduces the aggregate by what the sub-portfolio held and trades
\* nothing for assets of the list that are not held.
C22_AsStated == UnwindOfPricedHoldings => FullyUnwound

\* C22: a trade with target 0 that the price guard lets through, on a
\* sub-portfolio whose held assets all have available prices, brings every
\* held quantity to 0, reduces the aggregate by what the sub-portfolio held
\* and trades nothing for assets of the list that are not held.
C22_FullUnwind ==
    UnwindOfPricedHoldings /\ obs.result # "abort" => FullyUnwound

\* a full unwind of a sub-portfolio that held one asset of a list of two
C22_Witness ==
    /\ UnwindOfPricedHoldings
    /\ obs.result = "done"
    /\ Len(frame.assets) = 2
    /\ Len(obs.log) = 1
    /\ \E i \in 1..2 : obs.oldQty[AssetTicker(frame.assets[i])] = 0

\* the signed market value of one side of sub-portfolio n: the sum of
\* price * quantity * lot_size over its assets of that sign
SignedSide(n, sgn) ==
    SumSet([i \in 1..Len(subPf[n]) |->
                LET m == asset_market_value(Ledger, subPf[n][i].obj)
                IN  IF m * sgn > 0 THEN m ELSE 0],
           1..Len(subPf[n]))

\* C23, as the spec states it: a sub-portfolio's exposure is the larger of
\* its long market value and the magnitude of its short market value, and
\* its net delta is long market value plus short market value, the short
\* side signed negative, so that equal long and short give 0.
C23_AsStated ==
    \A n \in DOMAIN subPf :
        /\ exposure(Ledger, subPf[n]) =
               Max2(SignedSide(n, 1), Abs(SignedSide(n, -1)))
        /\ delta(Ledger, subPf[n]) = SignedSide(n, 1) + SignedSide(n, -1)

\* the orders the running call has executed so far in pass `phase`
Executed(phase) == {i \in 1..Len(obs.log) : obs.log[i].phase = phase}

\* C24: in a trade call every unwind order is executed before the scale is
\* computed and the scale before any initiate order: when the initiate
\* pass begins the orders executed are all unwinds and the scale's
\* denominator is the cash left after them, and in the finished call no
\* initiate order precedes an unwind order.
C24_PassOrdering ==
    /\ pc = "initiate" =>
           /\ Executed("initiate") = {}
           /\ frame.scale.den = (IF IsNaN(cash) THEN NaN ELSE Abs(cash))
    /\ pc = "return" =>
           \A i \in Executed("initiate"), j \in Executed("unwind") : j < i

\* a finished call that unwound two holdings and then initiated
C24_Witness ==
    /\ pc = "return"
    /\ Cardinality(Executed("unwind")) = 2
    /\ Executed("initiate") # {}
    /\ cash # frame.before.cash

\* the trade sizes the running call computed when it began (lines 253-276)
SizesAtEntry ==
    IF frame.target = 0 THEN unwind_trades(frame.before, frame.pf)
    ELSE target_trades(frame.before, frame.pf, frame.target, frame.snap,
                       [assets |-> frame.assets, weights |-> frame.weights], 1).trd

\* the unwind pass of the running call is over
AfterUnwind ==
    /\ pc \in {"initiate", "return"}
    /\ obs.result \in {"running", "done"}

\* the unwind orders the call executed for ticker t
UnwindsOf(t) == {i \in Executed("unwind") : obs.log[i].ticker = t}

\* C25: for an asset whose desired quantity q is opposite in sign to the
\* held quantity c, the unwind pass executes exactly one order, of
\* sign(-c) * min(|q|, |c|), and leaves q minus that to trade; after it
\* the held quantity is 0 or has the sign of c; an asset whose q is 0 or
\* has the sign of c is not traded in the unwind pass; with c = +11 and
\* q = -16 the unwind is -11 and the remainder -5.
C25_UnwindSize ==
    /\ AfterUnwind =>
           \A k \in 1..Len(SizesAtEntry) :
               LET q == SizesAtEntry[k].quantity
                   t == SizesAtEntry[k].ticker
                   c == obs.oldQty[t]
                   u == IF c > 0 THEN -Min2(Abs(q), Abs(c)) ELSE Min2(Abs(q), Abs(c))
               IN  IF q * c < 0
                   THEN /\ Cardinality(UnwindsOf(t)) = 1
                        /\ \A i \in UnwindsOf(t) :
                               /\ obs.log[i].quantity = u
                               /\ obs.log[i].after = c + u
                               /\ obs.log[i].after * c >= 0
                        /\ frame.trd[k].quantity = q - u
                   ELSE /\ UnwindsOf(t) = {}
                        /\ frame.trd[k].quantity = q
    /\ unwind_pos(-16, 11) = -11
    /\ -16 - unwind_pos(-16, 11) = -5

\* an unwind smaller than the holding: the order is used up and the
\* holding keeps its sign
C25_Witness ==
    /\ AfterUnwind
    /\ \E k \in 1..Len(SizesAtEntry) :
           LET q == SizesAtEntry[k].quantity
               c == obs.oldQty[SizesAtEntry[k].ticker]
           IN  /\ q * c < 0
               /\ Abs(q) < Abs(c)
               /\ frame.trd[k].quantity = 0
               /\ SubQty(Ledger, frame.pf, SizesAtEntry[k].ticker) * c > 0

\* the notional left to trade for entry k of the running call:
\* lot_size * quantity * mark price, 0 where that is not a number
RemainingNotional(k) ==
    LET e == frame.trd[k]
        px == PSnapshot(frame.snap)[e.ticker][mark_on]
    IN  IF IsNaN(px) THEN 0 ELSE AssetLot(e.asset) * e.quantity * px

\* the sum of the remaining notionals of one sign
RemainingSide(sgn) ==
    SumSet([k \in 1..Len(frame.trd) |->
                IF RemainingNotional(k) * sgn > 0 THEN RemainingNotional(k) ELSE 0],
           1..Len(frame.trd))

\* scale > 1 for the scale num / den of the running call
CashConstrained ==
    /\ ~IsNaN(frame.scale.den)
    /\ frame.scale.num > frame.scale.den

\* what the initiate pass is to execute for a remaining quantity q
StatedInitiate(q) ==
    IF CashConstrained
    THEN IF frame.scale.den = 0 THEN 0
         ELSE RoundHalfEven(q * frame.scale.den, frame.scale.num)
    ELSE q

\* the initiate orders the call executed for ticker t
InitiatesOf(t) == {i \in Executed("initiate") : obs.log[i].ticker = t}

\* C26: after the unwind pass the scale is max(sum of the positive
\* remaining notionals, |sum of the negative ones|) / |cash|, computed once;
\* with scale <= 1 each remaining quantity is executed unchanged, with
\* scale > 1 it is executed as round(q / scale), no larger than q in
\* magnitude and of q's sign, a quantity that rounds to 0 being skipped;
\* when all remaining notionals are 0 nothing more is executed.
C26_CashScaling ==
    /\ pc = "initiate" =>
           /\ frame.scale.num = Max2(RemainingSide(1), Abs(RemainingSide(-1)))
           /\ frame.scale.den = (IF IsNaN(cash) THEN NaN ELSE Abs(cash))
    /\ pc = "return" /\ obs.result = "done" =>
           /\ \A k \in 1..Len(frame.trd) :
                  LET q == frame.trd[k].quantity
                      x == StatedInitiate(q)
                  IN  /\ Abs(x) <= Abs(q) /\ x * q >= 0
                      /\ Cardinality(InitiatesOf(frame.trd[k].ticker))
                             = IF x = 0 THEN 0 ELSE 1
                      /\ \A i \in InitiatesOf(frame.trd[k].ticker) :
                             obs.log[i].quantity = x
           /\ (\A k \in 1..Len(frame.trd) : RemainingNotional(k) = 0)
                  => Executed("initiate") = {}

\* a call short of cash: an order went out smaller than what was left to
\* trade
C26_Witness ==
    /\ pc = "return" /\ obs.result = "done"
    /\ CashConstrained
    /\ \E k \in 1..Len(frame.trd) :
           \E i \in InitiatesOf(frame.trd[k].ticker) :
               /\ obs.log[i].quantity # 0
               /\ Abs(obs.log[i].quantity) < Abs(frame.trd[k].quantity)

\* the quantity of ticker t the call executed, over both passes
ExecutedQty(t) ==
    SumSet([i \in 1..Len(obs.log) |->
                IF obs.log[i].ticker = t THEN obs.log[i].quantity ELSE 0],
           1..Len(obs.log))

TargetedOnPricedAssets ==
    /\ pc = "return"
    /\ frame.target # 0
    /\ ~CashConstrained
    /\ \A i \in 1..Len(frame.assets) :
           LET row == PSnapshot(frame.snap)[AssetTicker(frame.assets[i])]
           IN  ~IsNaN(row[buy_on]) /\ ~IsNaN(row[sell_on]) /\ ~IsNaN(row[mark_on])

\* asset i of the call sits within half a lot of target * weight: with
\* weight n / d, |qty * lot * price * d - target * n| * 2 <= lot * price * d
WithinHalfLot(i) ==
    LET o == frame.assets[i]
        t == AssetTicker(o)
        w == StatedWeight(i)
        unit == AssetLot(o) * PSnapshot(frame.snap)[t][mark_on]
    IN  2 * Abs(SubQty(Ledger, frame.pf, t) * unit * w.d - frame.target * w.n)
            <= unit * Abs(w.d)

\* C28, as the spec states it: after a trade with a nonzero target,
\* available prices and scale <= 1, the notional held of every asset of
\* the list, quantity * lot_size * price, differs from target * weight of
\* its ticker by at most half of lot_size * price, whatever was held before.
C28_AsStated ==
    TargetedOnPricedAssets =>
        \A i \in 1..Len(frame.assets) : WithinHalfLot(i)

\* C30, as the spec states it: in every reachable state cash and the
\* commission total of every ticker are finite numbers; no order is
\* executed at a price the snapshot does not have.
C30_AsStated ==
    /\ ~IsNaN(cash)
    /\ \A t \in DOMAIN commission : ~IsNaN(commission[t])

\* C33, as the spec states it: starting from init_cash > 0, after every
\* completed trade call cash is at least 0, the scaling having kept what
\* the initiate pass spends within the cash the unwind pass left.
C33_AsStated ==
    (pc = "return" /\ obs.result = "done") =>
        ~IsNaN(cash) /\ cash >= 0

-----------------------------------------------------------------------------
(* Properties of proper_weights (SpecWeights) *)

\* the caller's map of the last call, its positive and its negative keys
WIn == wArgs.weights.map

WPos == {k \in DOMAIN WIn : WIn[k].n > 0}

WNeg == {k \in DOMAIN WIn : WIn[k].n < 0}

WNormalized ==
    /\ wRes.called /\ ~wArgs.weights.isNone
    /\ ~wRes.isNone /\ DOMAIN wRes.map = DOMAIN WIn

\* C6 (as amended): proper_weights on a map with positive entries yields
\* positive entries that sum to 1; when the map also has negative entries
\* these sum to -(|sum of negative weights| / sum of positive weights),
\* which is -1 only when the two sides are of equal size; zero entries
\* stay 0.
C6_NormalizedSums ==
    (wRes.called /\ ~wArgs.weights.isNone) =>
        /\ WNormalized
        /\ WPos # {} => RSumSet(wRes.map, WPos) = Rat(1, 1)
        /\ (WPos # {} /\ WNeg # {}) =>
               RSumSet(wRes.map, WNeg) = RDiv(RSumSet(WIn, WNeg), RSumSet(WIn, WPos))
        /\ \A k \in DOMAIN WIn : WIn[k].n = 0 => wRes.map[k] = Rat(0, 1)

\* C6, as the spec states it: with both signs present the negative entries
\* of the result sum to -1.
C6_AsStated ==
    (wRes.called /\ ~wArgs.weights.isNone /\ WPos # {} /\ WNeg # {}) =>
        /\ WNormalized
        /\ RSumSet(wRes.map, WPos) = Rat(1, 1)
        /\ RSumSet(wRes.map, WNeg) = Rat(-1, 1)

\* C6's case: a normalized map with a zero entry and two sides of
\* different sizes
C6_Witness ==
    /\ WNormalized
    /\ WPos # {} /\ WNeg # {}
    /\ \E k \in DOMAIN WIn : WIn[k].n = 0
    /\ RSumSet(WIn, WPos) # Rat(-RSumSet(WIn, WNeg).n, 1)
    /\ RSumSet(wRes.map, WPos) = Rat(1, 1)

\* C7: with both signs present proper_weights maps every nonzero weight w
\* to w / (sum of the positive weights); with only negative entries each
\* is divided by |sum of the negative weights|.
C7_KeepsRatio ==
    (wRes.called /\ ~wArgs.weights.isNone) =>
        /\ WNormalized
        /\ (WPos # {} /\ WNeg # {}) =>
               \A k \in WPos \cup WNeg :
                   wRes.map[k] = RDiv(WIn[k], RSumSet(WIn, WPos))
        /\ (WPos = {} /\ WNeg # {}) =>
               \A k \in WNeg :
                   wRes.map[k] = RDiv(WIn[k], Rat(-RSumSet(WIn, WNeg).n, 1))

\* C7's case: the docstring's example in units of 100, {2, 2, -3} gives
\* {1/2, 1/2, -3/4}
C7_Witness ==
    /\ ~wArgs.weights.isNone
    /\ WIn = ("A" :> Rat(2, 1)) @@ ("B" :> Rat(2, 1)) @@ ("C" :> Rat(-3, 1))
    /\ wRes.called
    /\ wRes.map = ("A" :> Rat(1, 2)) @@ ("B" :> Rat(1, 2)) @@ ("C" :> Rat(-3, 4))

\* C8, as the spec states it: without weights the result maps the ticker
\* of the first asset to +1 and, for two assets, the ticker of the second
\* to -1, so that every asset's weight is found under its ticker.
C8_AsStated ==
    (wRes.called /\ wArgs.weights.isNone /\ Len(wArgs.assets) \in {1, 2}) =>
        /\ ~wRes.isNone
        /\ DOMAIN wRes.map = {AssetTicker(wArgs.assets[i]) : i \in 1..Len(wArgs.assets)}
        /\ wRes.map[AssetTicker(wArgs.assets[1])] = Rat(1, 1)
        /\ Len(wArgs.assets) = 2 => wRes.map[AssetTicker(wArgs.assets[2])] = Rat(-1, 1)

\* C32, as the spec states it: proper_weights rewrites the caller's dict in
\* place (the dict the caller holds is the dict returned), and applying it
\* again to its own result returns the same weights, so that a second call
\* reusing the dict works with the weights of the first.
C32_AsStated ==
    (wRes.called /\ ~wArgs.weights.isNone) =>
        /\ wRes.dict = wRes.out
        /\ wRes.again => wRes.out = wRes.first

-----------------------------------------------------------------------------
(* Properties of the fill simulator (SpecEngine) *)

\* on_order has just been called with a market or limit order
OrderEvaluated ==
    /\ engOut.op = "on_order"
    /\ engOut.event.type \in {"MKT", "LMT"}

\* the field the spec prices the last order on: ask (ask_N) for a buy and
\* bid (bid_N) for a sell under a bid/ask configuration, the configured
\* field otherwise
StatedField ==
    IF HasBidAsk(engine.trade_on)
    THEN IF engOut.event.quantity > 0 THEN engine.buy_on ELSE engine.sell_on
    ELSE engine.trade_on

\* the ticker has no row, the row lacks the field, or its value is NaN or
\* infinite
ReferenceUnavailable ==
    LET row == snap_get(snapshot, engOut.event.ticker)
    IN  \/ StatedField \notin DOMAIN row.fields
        \/ row.fields[StatedField] \in {NaN, Inf}

\* C9, as the spec states it: an order whose reference field is missing or
\* not finite gets the no-fill outcome and puts no FillEvent on the queue.
C9_AsStated ==
    (OrderEvaluated /\ ReferenceUnavailable) =>
        engOut.out = "nofill" /\ ~engOut.queued

\* the last order was evaluated to an end against an available reference
\* price, and the instant-execution check of its timestamp did not apply
ReturnedOnAvailablePrice ==
    /\ OrderEvaluated
    /\ ~ReferenceUnavailable
    /\ engOut.out \in {"fill", "nofill"}
    /\ ~(engine.inst_exec /\ engOut.event.timestamp > snapshot.timestamp)

\* no limit, or a finite limit at or above the price for a buy, at or
\* below it for a sell
Marketable ==
    LET p == snap_get(snapshot, engOut.event.ticker).fields[StatedField]
        l == engOut.event.limit
    IN  \/ engOut.event.type = "MKT"
        \/ /\ l \notin {NaN, Inf}
           /\ IF engOut.event.quantity > 0 THEN l >= p ELSE l <= p

\* C10, as the spec states it: an order evaluated against an available
\* reference price p fills, at p, exactly when it has no limit or its
\* limit is marketable.
C10_AsStated ==
    ReturnedOnAvailablePrice =>
        /\ (engOut.out = "fill") <=> Marketable
        /\ engOut.out = "fill" =>
               engOut.price = snap_get(snapshot, engOut.event.ticker).fields[StatedField]

\* the row of the last order's ticker
OrderRow == snap_get(snapshot, engOut.event.ticker)

\* C17, as the spec states it: the evaluation of an order selects the
\* buy-side field for a buy and the sell-side field for a sell, ask and bid
\* (ask_N and bid_N) under a bid/ask configuration and the configured field
\* for both sides otherwise, and a fill is priced on that field.
C17_AsStated ==
    OrderEvaluated =>
        /\ engOut.out # "AttributeError"
        /\ engOut.out = "fill" => engOut.price = OrderRow.fields[StatedField]

\* the last order carries a timestamp after the snapshot's
AheadOfSnapshot == engOut.event.timestamp > snapshot.timestamp

\* C18: under instant execution an order whose timestamp is after the
\* snapshot's timestamp gets no fill and nothing is put on the queue for
\* it, a signal puts no fill on the queue at all, and without instant
\* execution the outcome of an order is the same for every timestamp.
C18_NoLookAhead ==
    /\ (OrderEvaluated /\ engine.inst_exec /\ AheadOfSnapshot) =>
           engOut.out # "fill" /\ ~engOut.queued
    /\ engOut.op = "on_signal" => ~engOut.queued
    /\ (OrderEvaluated /\ ~engine.inst_exec) =>
           \A ts \in Times :
               LET r == order_outcome(engine, snapshot,
                                      [engOut.event EXCEPT !.timestamp = ts])
               IN  r.out = engOut.out /\ r.price = engOut.price

\* a market order that only its timestamp keeps from a fill: instant
\* execution, the reference price is there, the order is ahead of it
C18_Witness ==
    /\ OrderEvaluated /\ engine.inst_exec /\ AheadOfSnapshot
    /\ engOut.event.type = "MKT"
    /\ engOut.out = "nofill"
    /\ field_found(OrderRow, StatedField)
    /\ StatedField \in DOMAIN OrderRow.fields
    /\ OrderRow.fields[StatedField] \notin {NaN, Inf}

\* the last call was on_order
OnOrderCalled == engOut.op = "on_order"

\* C19: a call of on_order leaves the snapshot and the engine's
\* configuration as they were; it puts one FillEvent on the queue when the
\* evaluation gives a fill and nothing otherwise; the FillEvent carries the
\* order's strategy, asset and whole signed quantity, the value the
\* snapshot holds for the reference field, and the snapshot's timestamp; an
\* event that is no market or limit order is ignored.
C19_OrderOutcome ==
    [][OnOrderCalled' =>
          /\ snapshot' = snapshot
          /\ engine' = [engine EXCEPT !.calls = @ + 1]
          /\ engOut'.queued = (engOut'.out = "fill")
          /\ IF engOut'.queued
             THEN /\ OrderEvaluated'
                  /\ events_queue' =
                         Append(events_queue,
                                [timestamp |-> snapshot.timestamp,
                                 strategy |-> engOut'.event.strategy,
                                 ticker |-> engOut'.event.ticker,
                                 quantity |-> engOut'.event.quantity,
                                 fill_cost |-> OrderRow'.fields[StatedField']])
             ELSE events_queue' = events_queue
          /\ ~OrderEvaluated' => engOut'.out = "ignored"]_vars

\* an order filled at a time other than the snapshot's: the FillEvent on
\* the queue carries the snapshot's timestamp and the order's quantity
C19_Witness ==
    /\ OrderEvaluated
    /\ engOut.queued
    /\ engOut.event.timestamp # snapshot.timestamp
    /\ Len(events_queue) > 0
    /\ events_queue[Len(events_queue)].timestamp = snapshot.timestamp
    /\ events_queue[Len(events_queue)].quantity = engOut.event.quantity
    /\ events_queue[Len(events_queue)].fill_cost = engOut.price

\* C29, as the spec states it: for every order of nonzero quantity and
\* every content of the snapshot, on_order terminates without raising and
\* ends in a fill or in no fill.
C29_AsStated ==
    (OrderEvaluated /\ engOut.event.quantity # 0) =>
        engOut.out \in {"fill", "nofill"}

-----------------------------------------------------------------------------
(* Properties of commission schedules (SpecComms) *)

\* the schedule was built from a spec string with a keyword of a subclass
KnownKind == cArgs.typ \in KnownTyps

\* the trade of the doctest was costed on the schedule of the spec string
Costed(typ, cost, trans) ==
    /\ cRes.stage = "done"
    /\ cArgs.typ = typ /\ cArgs.cost = cost /\ cArgs.args = <<>>
    /\ cArgs.trans = trans

\* C11, as the spec states it: the schedule built from '{kind}__{c}' holds
\* c divided by the scale of its kind (10^4 per notional, 10^2 per share,
\* 1 per trade), so that 'dollar__15' on 16000 at 5.1 costs 122.4 and 15.0
\* bps, 'trade__75' on the same trade 75.0 and 9.19 bps, and 'share__5' on
\* 1000 at 85 costs 50.0 and 5.88 bps.
C11_AsStated ==
    /\ (cRes.stage # "new" /\ KnownKind) =>
           cRes.sched.cost = Rat(cArgs.cost, Pow10(ClassRounding(KindOf(cArgs.typ))))
    /\ Costed("dollar", 15, Trans(16000, 510)) => cRes.out = TransCost(12240, 1500)
    /\ Costed("trade", 75, Trans(16000, 510)) => cRes.out = TransCost(7500, 919)
    /\ Costed("share", 5, Trans(1000, 8500)) => cRes.out = TransCost(5000, 588)

\* C12, as the spec states it: for a spec string whose kind token is no
\* recognized spelling, comms() fails and returns no schedule.
C12_AsStated ==
    (cRes.stage # "new" /\ ~KnownKind) => cRes.sched = NoSchedule

\* max(variant_formula(trade), min_cost) of the costed trade, as a rational
\* number of cents
FlooredFormula ==
    LET f == VariantFormula(cRes.sched, cArgs.trans.quantity, cArgs.trans.fill_cost)
    IN  IF f.n >= cRes.sched.min_cost * f.d THEN f ELSE Rat(cRes.sched.min_cost, 1)

\* C13: for a schedule of each variant and a trade with nonzero quantity,
\* total_commission is max(variant_formula(trade), min_cost) rounded to
\* cents, hence at least min_cost and at least 0; bps is computed from the
\* rounded total; and a min_cost given as third token of the spec string is
\* the floor applied.  ('trade__75' on 16000 at 5.1: 75.0 and 9.19 bps.)
C13_CommissionFloor ==
    (cRes.stage = "done" /\ KnownKind /\ cArgs.trans.quantity # 0) =>
        /\ cRes.sched.kind = KindOf(cArgs.typ)
        /\ cRes.sched.min_cost = (IF Len(cArgs.args) > 0 THEN cArgs.args[1] ELSE 0)
        /\ cRes.out.total_comm = RoundHalfEven(FlooredFormula.n, FlooredFormula.d)
        /\ cRes.out.total_comm >= cRes.sched.min_cost
        /\ cRes.out.total_comm >= 0
        /\ cRes.out.in_bps =
               in_bps(cRes.out.total_comm, cArgs.trans.quantity, cArgs.trans.fill_cost)
        /\ Costed("trade", 75, Trans(16000, 510)) => cRes.out = TransCost(7500, 919)

\* a trade costed at the floor: the variant's formula gives less than the
\* min_cost of the spec string
C13_Witness ==
    /\ cRes.stage = "done" /\ KnownKind /\ cArgs.trans.quantity # 0
    /\ cArgs.args = <<10000>>
    /\ LET f == VariantFormula(cRes.sched, cArgs.trans.quantity, cArgs.trans.fill_cost)
       IN  f.n < 10000 * f.d /\ f.n > 0
    /\ cRes.out.total_comm = 10000
    /\ cRes.out.in_bps > 0

-----------------------------------------------------------------------------
(* Properties of the market snapshot (SpecSnapshot) *)

\* the last call was update with a market event
MarketApplied == engOut.op = "update" /\ engOut.event.type = "MARKET"

\* C14: the snapshot's timestamp never decreases; an update with a market
\* event leaves it at the maximum of the timestamp held and the event's, so
\* it is the maximum over the events of all updates; an update with an
\* event that is no market event changes nothing.
C14_TimestampMonotone ==
    [][/\ snapshot'.timestamp >= snapshot.timestamp
       /\ MarketApplied' =>
              snapshot'.timestamp = Max2(snapshot.timestamp, engOut'.event.timestamp)
       /\ ~MarketApplied' =>
              /\ snapshot' = snapshot
              /\ events_queue' = events_queue]_vars

\* a stale update was made: the timestamp held is later than the event's
C14_Witness ==
    /\ MarketApplied
    /\ engOut.out = "done"
    /\ engOut.event.timestamp < snapshot.timestamp
    /\ snap_get(snapshot, engOut.event.ticker).timestamp = engOut.event.timestamp

\* C15, as the spec states it: an update for a ticker sets each field the
\* update carries to the update's value, keeps every other field of the
\* ticker's row and leaves the rows of all other tickers as they were, also
\* when the update is older than the snapshot's timestamp, which alone then
\* stays as it was.
C15_AsStated ==
    [][MarketApplied' =>
          LET ev == engOut'.event
              old == snap_get(snapshot, ev.ticker)
              new == snap_get(snapshot', ev.ticker)
          IN  /\ \A f \in DOMAIN ev.data.fields :
                     row_get(new, f) = [isNone |-> FALSE, value |-> ev.data.fields[f]]
              /\ \A f \in DOMAIN old.fields \ DOMAIN ev.data.fields :
                     row_get(new, f) = row_get(old, f)
              /\ \A u \in (DOMAIN snapshot.rows \cup DOMAIN snapshot'.rows) \ {ev.ticker} :
                     /\ u \in DOMAIN snapshot.rows /\ u \in DOMAIN snapshot'.rows
                     /\ snapshot'.rows[u] = snapshot.rows[u]
              /\ ev.timestamp <= snapshot.timestamp =>
                     snapshot'.timestamp = snapshot.timestamp]_vars

\* the last call was the lookup snapshot[ticker][field]
LookedUp == engOut.op = "lookup"

\* C16: a lookup never raises and changes nothing in the snapshot; for a
\* ticker without a row, and for a field an existing row does not hold,
\* the value read is None, and no row is added for the ticker.
C16_TotalLookup ==
    [][LookedUp' =>
          LET t == engOut'.event.ticker
              f == engOut'.event.field
          IN  /\ snapshot' = snapshot
              /\ engOut'.out \in {"None", "value"}
              /\ t \notin DOMAIN snapshot.rows =>
                     /\ engOut'.out = "None"
                     /\ t \notin DOMAIN snapshot'.rows
              /\ (t \in DOMAIN snapshot.rows /\ f \notin DOMAIN snapshot.rows[t].fields) =>
                     engOut'.out = "None"
              /\ (t \in DOMAIN snapshot.rows /\ f \in DOMAIN snapshot.rows[t].fields) =>
                     /\ engOut'.out = "value"
                     /\ engOut'.price = snapshot.rows[t].fields[f]]_vars

\* a ticker without a row was looked up while another ticker had one
C16_Witness ==
    /\ LookedUp
    /\ engOut.out = "None"
    /\ engOut.event.ticker \notin DOMAIN snapshot.rows
    /\ DOMAIN snapshot.rows # {}

=============================================================================
